---- MODULE Spec2Model ----
(***************************************************************************)
(* Exec tool of the gateway: the gating pipeline of createExecTool.execute *)
(* (elevated gate, host gate, security/ask compose, approvals file,        *)
(* allowlist match, approval decision) and the life cycle of one exec      *)
(* session (yield, abort, timeout, exit).                                  *)
(*                                                                         *)
(* Strings that the code inspects character by character (commands,        *)
(* allowlist patterns, raw request parameters) are sequences of            *)
(* one-character strings.  Enumerations the code compares as a whole       *)
(* ("deny", "on-miss", ...) are TLA+ strings.  undefined and null are      *)
(* None for an enumeration, NoText for a character sequence and Null for   *)
(* an object.                                                              *)
(***************************************************************************)
EXTENDS Integers, Sequences, FiniteSets, TLC

None == "none"
NoText == <<"undefined">>
Null == [null |-> TRUE]

(***************************************************************************)
(* JavaScript string primitives on character sequences.                    *)
(***************************************************************************)
UpperChars == <<"A","B","C","D","E","F","G","H","I","J","K","L","M",
                "N","O","P","Q","R","S","T","U","V","W","X","Y","Z">>
LowerChars == <<"a","b","c","d","e","f","g","h","i","j","k","l","m",
                "n","o","p","q","r","s","t","u","v","w","x","y","z">>

LowerChar(c) ==
  IF \E i \in 1..Len(UpperChars) : UpperChars[i] = c
  THEN LowerChars[CHOOSE i \in 1..Len(UpperChars) : UpperChars[i] = c]
  ELSE c

toLowerCase(s) == [i \in 1..Len(s) |-> LowerChar(s[i])]

IsSpace(c) == c \in {" ", "\t", "\n"}

RECURSIVE trimStart(_)
trimStart(s) ==
  IF s # <<>> /\ IsSpace(Head(s)) THEN trimStart(Tail(s)) ELSE s

RECURSIVE trimEnd(_)
trimEnd(s) ==
  IF s # <<>> /\ IsSpace(s[Len(s)]) THEN trimEnd(SubSeq(s, 1, Len(s) - 1)) ELSE s

trim(s) == trimEnd(trimStart(s))

includes(s, c) == \E i \in 1..Len(s) : s[i] = c

startsWith(s, p) == Len(s) >= Len(p) /\ SubSeq(s, 1, Len(p)) = p

\* s.indexOf(c, from) with 0-based positions, -1 when absent
indexOf(s, c, from) ==
  IF \E i \in (from + 1)..Len(s) : s[i] = c
  THEN (CHOOSE i \in (from + 1)..Len(s) :
          s[i] = c /\ \A j \in (from + 1)..(i - 1) : s[j] # c) - 1
  ELSE -1

\* s.slice(from, to) with 0-based positions
slice(s, from, to) == SubSeq(s, from + 1, to)

(***************************************************************************)
(* Policy helpers of exec-approvals.ts.                                    *)
(***************************************************************************)
ExecHosts == {"sandbox", "gateway", "node"}
ExecSecurities == {"deny", "allowlist", "full"}
ExecAsks == {"off", "on-miss", "always"}

securityOrder == [deny |-> 0, allowlist |-> 1, full |-> 2]
askOrder == [off |-> 0, always |-> 2] @@ ("on-miss" :> 1)

minSecurityWidened(a, b) == IF securityOrder[a] >= securityOrder[b] THEN a ELSE b

minSecurity(a, b) == IF securityOrder[a] <= securityOrder[b] THEN a ELSE b

maxAskLowered(a, b) == IF askOrder[a] <= askOrder[b] THEN a ELSE b

maxAsk(a, b) == IF askOrder[a] >= askOrder[b] THEN a ELSE b

normalizeSecurity(value, fallback) ==
  IF value \in {"allowlist", "full", "deny"} THEN value ELSE fallback

normalizeAsk(value, fallback) ==
  IF value \in {"always", "off", "on-miss"} THEN value ELSE fallback

\* a ?? b
Coalesce(a, b) == IF a # None THEN a ELSE b
CoalesceText(a, b) == IF a # NoText THEN a ELSE b

(***************************************************************************)
(* Request-parameter normalizers of bash-tools.exec.ts.  A raw parameter   *)
(* is NoText or a character sequence.                                      *)
(***************************************************************************)
Chars(name) ==
  CASE name = "sandbox"   -> <<"s","a","n","d","b","o","x">>
    [] name = "gateway"   -> <<"g","a","t","e","w","a","y">>
    [] name = "node"      -> <<"n","o","d","e">>
    [] name = "deny"      -> <<"d","e","n","y">>
    [] name = "allowlist" -> <<"a","l","l","o","w","l","i","s","t">>
    [] name = "full"      -> <<"f","u","l","l">>
    [] name = "off"       -> <<"o","f","f">>
    [] name = "on-miss"   -> <<"o","n","-","m","i","s","s">>
    [] name = "always"    -> <<"a","l","w","a","y","s">>

NormalizeEnum(value, names) ==
  IF value = NoText THEN None
  ELSE LET normalized == toLowerCase(trim(value))
       IN IF \E n \in names : Chars(n) = normalized
          THEN CHOOSE n \in names : Chars(n) = normalized
          ELSE None

normalizeExecHost(value) == NormalizeEnum(value, ExecHosts)
normalizeExecSecurity(value) == NormalizeEnum(value, ExecSecurities)
normalizeExecAsk(value) == NormalizeEnum(value, ExecAsks)

(***************************************************************************)
(* The host environment that command resolution consults: the home         *)
(* directory, the PATH entries and the files that exist.                   *)
(***************************************************************************)
HomeDir == <<"/","h">>
PathEntries == << <<"/","b">> >>
ExistingFiles == { <<"/","b","/","r","g">>, <<"/","b","/","g","+","+">> }

\* path.join(dir, name) and path.resolve(base, rel), for segments without "." or ".."
pathJoin(dir, name) == dir \o <<"/">> \o name

pathIsAbsolute(p) == p # <<>> /\ Head(p) = "/"

RECURSIVE pathBasename(_)
pathBasename(p) ==
  IF ~includes(p, "/") THEN p
  ELSE pathBasename(Tail(p))

expandHome(value) ==
  IF value = <<>> THEN value
  ELSE IF value = <<"~">> THEN HomeDir
  ELSE IF startsWith(value, <<"~", "/">>) THEN pathJoin(HomeDir, slice(value, 2, Len(value)))
  ELSE value

(***************************************************************************)
(* Command resolution (exec-approvals.ts).                                 *)
(***************************************************************************)
RECURSIVE NonSpacePrefix(_)
NonSpacePrefix(s) ==
  IF s = <<>> \/ IsSpace(Head(s)) THEN <<>>
  ELSE <<Head(s)>> \o NonSpacePrefix(Tail(s))

parseFirstToken(command) ==
  LET trimmed == trim(command)
  IN IF trimmed = <<>> THEN NoText
     ELSE LET first == trimmed[1]
          IN IF first \in {"\"", "'"}
             THEN LET end == indexOf(trimmed, first, 1)
                  IN IF end > 1 THEN slice(trimmed, 1, end)
                     ELSE slice(trimmed, 1, Len(trimmed))
             ELSE LET m == NonSpacePrefix(trimmed)
                  IN IF m # <<>> THEN m ELSE NoText

RECURSIVE SearchPath(_, _)
SearchPath(entries, expanded) ==
  IF entries = <<>> THEN NoText
  ELSE LET candidate == pathJoin(Head(entries), expanded)
       IN IF candidate \in ExistingFiles THEN candidate
          ELSE SearchPath(Tail(entries), expanded)

resolveExecutablePath(rawExecutable, cwd) ==
  LET expanded == IF startsWith(rawExecutable, <<"~">>)
                  THEN expandHome(rawExecutable) ELSE rawExecutable
  IN IF includes(expanded, "/") \/ includes(expanded, "\\")
     THEN IF pathIsAbsolute(expanded) THEN expanded
          ELSE pathJoin(cwd, expanded)
     ELSE SearchPath(PathEntries, expanded)

resolveCommandResolution(command, cwd) ==
  LET rawExecutable == parseFirstToken(command)
  IN IF rawExecutable = NoText THEN Null
     ELSE LET resolvedPath == resolveExecutablePath(rawExecutable, cwd)
          IN [rawExecutable |-> rawExecutable,
              resolvedPath |-> resolvedPath,
              executableName |-> IF resolvedPath # NoText
                                 THEN pathBasename(resolvedPath)
                                 ELSE rawExecutable]

(***************************************************************************)
(* Allowlist pattern matching (exec-approvals.ts).                         *)
(***************************************************************************)
\* value.replace(/\\\\/g, "/"): the regular expression matches two backslashes
RECURSIVE ReplaceBackslashPairs(_)
ReplaceBackslashPairs(s) ==
  IF s = <<>> THEN <<>>
  ELSE IF Len(s) >= 2 /\ s[1] = "\\" /\ s[2] = "\\"
       THEN <<"/">> \o ReplaceBackslashPairs(SubSeq(s, 3, Len(s)))
       ELSE <<Head(s)>> \o ReplaceBackslashPairs(Tail(s))

normalizeMatchTarget(value) == toLowerCase(ReplaceBackslashPairs(value))

\* The source text of the regular expression.  The escaping replace of
\* line 331 needs a match of four characters (one of the class, then a
\* backslash pair and "]"), so on the single character ch it changes nothing.
RECURSIVE GlobBody(_)
GlobBody(pattern) ==
  IF pattern = <<>> THEN <<>>
  ELSE IF Head(pattern) = "*"
       THEN IF Len(pattern) >= 2 /\ pattern[2] = "*"
            THEN <<".", "*">> \o GlobBody(SubSeq(pattern, 3, Len(pattern)))
            ELSE <<"[", "^", "/", "]", "*">> \o GlobBody(Tail(pattern))
       ELSE IF Head(pattern) = "?"
            THEN <<".">> \o GlobBody(Tail(pattern))
            ELSE <<Head(pattern)>> \o GlobBody(Tail(pattern))

globToRegExp(pattern) == <<"^">> \o GlobBody(pattern) \o <<"$">>

(***************************************************************************)
(* new RegExp(source, "i") and RegExp.test for the sources globToRegExp    *)
(* can produce from patterns over letters, digits, "/", "-", "_", " ",     *)
(* ".", "+", "*" and "?": literals, ".", the class [^/], the postfix       *)
(* quantifiers "*" and "+", anchored at both ends.  A quantifier with      *)
(* nothing to repeat makes the constructor throw a SyntaxError.            *)
(***************************************************************************)
RECURSIVE RegExpItems(_, _)
RegExpItems(src, acc) ==
  IF src = <<>> THEN [ok |-> TRUE, items |-> acc]
  ELSE LET c == Head(src)
       IN IF c \in {"*", "+"}
          THEN IF acc = <<>> \/ acc[Len(acc)].q # "1"
               THEN [ok |-> FALSE, items |-> <<>>]
               ELSE RegExpItems(Tail(src), [acc EXCEPT ![Len(acc)].q = c])
          ELSE IF c = "["
               THEN RegExpItems(SubSeq(src, 5, Len(src)),
                      Append(acc, [atom |-> "notslash", q |-> "1"]))
               ELSE IF c = "."
                    THEN RegExpItems(Tail(src), Append(acc, [atom |-> "any", q |-> "1"]))
                    ELSE RegExpItems(Tail(src), Append(acc, [atom |-> c, q |-> "1"]))

\* the items between the leading "^" and the trailing "$"; ok is FALSE when
\* the constructor throws a SyntaxError
RegExpCompile(source) == RegExpItems(SubSeq(source, 2, Len(source) - 1), <<>>)

AtomMatches(atom, ch) ==
  CASE atom = "any" -> TRUE
    [] atom = "notslash" -> ch # "/"
    [] OTHER -> LowerChar(atom) = LowerChar(ch)

RECURSIVE RegExpMatch(_, _, _, _)
RegExpMatch(items, k, t, j) ==
  IF k > Len(items) THEN j > Len(t)
  ELSE LET it == items[k]
           here == j <= Len(t) /\ AtomMatches(it.atom, t[j])
       IN CASE it.q = "1" -> here /\ RegExpMatch(items, k + 1, t, j + 1)
            [] it.q = "*" -> RegExpMatch(items, k + 1, t, j)
                             \/ (here /\ RegExpMatch(items, k, t, j + 1))
            [] it.q = "+" -> here /\ (RegExpMatch(items, k + 1, t, j + 1)
                                      \/ RegExpMatch(items, k, t, j + 1))

PatternRegExp(pattern) ==
  LET trimmed == trim(pattern)
      expanded == IF startsWith(trimmed, <<"~">>) THEN expandHome(trimmed) ELSE trimmed
  IN RegExpCompile(globToRegExp(normalizeMatchTarget(expanded)))

\* matchesPattern throws: the pattern is not empty and its RegExp does not compile
matchesPatternThrows(pattern) == trim(pattern) # <<>> /\ ~PatternRegExp(pattern).ok

matchesPattern(pattern, target) ==
  /\ trim(pattern) # <<>>
  /\ PatternRegExp(pattern).ok
  /\ RegExpMatch(PatternRegExp(pattern).items, 1, normalizeMatchTarget(target), 1)

\* The outcome of matchAllowlist: the first matching entry, Null, or Thrown
\* when matchesPattern throws before an entry matched
Thrown == [thrown |-> "SyntaxError"]

\* line 360
hasPathSeparatorOnly(pattern) ==
  includes(pattern, "/") \/ includes(pattern, "\\")

hasPath(pattern) ==
  includes(pattern, "/") \/ includes(pattern, "\\") \/ includes(pattern, "~")

RECURSIVE MatchEntries(_, _)
MatchEntries(entries, resolution) ==
  IF entries = <<>> THEN Null
  ELSE LET entry == Head(entries)
           pattern == trim(entry.pattern)
           target == IF hasPath(pattern)
                     THEN CoalesceText(resolution.resolvedPath, resolution.rawExecutable)
                     ELSE resolution.executableName
           tested == pattern # <<>> /\ target # <<>>
       IN IF tested /\ matchesPatternThrows(pattern) THEN Thrown
          ELSE IF tested /\ matchesPattern(pattern, target) THEN entry
          ELSE MatchEntries(Tail(entries), resolution)

matchAllowlist(entries, resolution) ==
  IF entries = <<>> \/ resolution = Null THEN Null
  ELSE MatchEntries(entries, resolution)

(***************************************************************************)
(* The approvals file (exec-approvals.ts).  A file is                      *)
(*   [socket |-> [path, token], defaults |-> [security, ask, askFallback], *)
(*    agents |-> [key |-> [security, ask, askFallback, allowlist]]]        *)
(* with None for an omitted scalar and EmptyAgent for an omitted agent.    *)
(* An allowlist entry is [pattern, lastUsedAt, lastUsedCommand,            *)
(* lastResolvedPath].  The disk holds a file or nothing.                   *)
(***************************************************************************)
AgentKeys == {"*", "main", "default"}

\* an optional boolean is <<>> (undefined) or <<b>>
NoFlag == <<>>

NoScalars ==
  [security |-> None, ask |-> None, askFallback |-> None, autoAllowSkills |-> NoFlag]

EmptyAgent ==
  [security |-> None, ask |-> None, askFallback |-> None, autoAllowSkills |-> NoFlag,
   allowlist |-> <<>>]

Entry(pattern) ==
  [pattern |-> pattern, lastUsedAt |-> None,
   lastUsedCommand |-> NoText, lastResolvedPath |-> NoText]

DEFAULT_SOCKET == "~/.clawdbot/exec-approvals.sock"
GeneratedToken == "generated-token"
Now == "now"

Missing == [exists |-> FALSE]

OnDisk(file) == [exists |-> TRUE, file |-> file]

EmptyFile ==
  [socket |-> [path |-> None, token |-> None],
   defaults |-> NoScalars,
   agents |-> [k \in AgentKeys |-> EmptyAgent]]

\* loadExecApprovals: a missing file loads as the empty normalized file
loadExecApprovals(d) == IF d.exists THEN d.file ELSE EmptyFile

\* lines 175-189
ensureExecApprovalsAnew(d) ==
  [EmptyFile EXCEPT !.socket = [path |-> DEFAULT_SOCKET, token |-> GeneratedToken]]

\* the file ensureExecApprovals saves and returns
ensureExecApprovals(d) ==
  LET next == loadExecApprovals(d)
  IN [next EXCEPT !.socket =
        [path |-> Coalesce(next.socket.path, DEFAULT_SOCKET),
         token |-> Coalesce(next.socket.token, GeneratedToken)]]

AgentKey(agentId) == Coalesce(agentId, "default")

\* a ?? b on optional booleans
CoalesceFlag(a, b) == IF a # NoFlag THEN a ELSE b

\* Boolean(value) of a defined boolean
Boolean(flag) == flag[1]

\* lines 245-248: the resolved allowlist
ResolvedAllowlistAgentFirst(wildcard, agent) ==
  agent.allowlist \o wildcard.allowlist

ResolvedAllowlist(wildcard, agent) ==
  wildcard.allowlist \o agent.allowlist

\* resolveExecApprovals on the file that ensureExecApprovals returned
resolveExecApprovals(file, agentId, overrides) ==
  LET defaults == file.defaults
      agent == file.agents[AgentKey(agentId)]
      wildcard == file.agents["*"]
      fallbackSecurity == Coalesce(overrides.security, "deny")
      fallbackAsk == Coalesce(overrides.ask, "on-miss")
      fallbackAskFallback == Coalesce(overrides.askFallback, "deny")
      fallbackAutoAllowSkills == CoalesceFlag(overrides.autoAllowSkills, <<FALSE>>)
      resolvedDefaults ==
        [security |-> normalizeSecurity(defaults.security, fallbackSecurity),
         ask |-> normalizeAsk(defaults.ask, fallbackAsk),
         askFallback |-> normalizeSecurity(
                           Coalesce(defaults.askFallback, fallbackAskFallback),
                           fallbackAskFallback),
         autoAllowSkills |-> Boolean(
                               CoalesceFlag(defaults.autoAllowSkills,
                                            fallbackAutoAllowSkills))]
      resolvedAgent ==
        [security |-> normalizeSecurity(
                        Coalesce(agent.security,
                          Coalesce(wildcard.security, resolvedDefaults.security)),
                        resolvedDefaults.security),
         ask |-> normalizeAsk(
                   Coalesce(agent.ask, Coalesce(wildcard.ask, resolvedDefaults.ask)),
                   resolvedDefaults.ask),
         askFallback |-> normalizeSecurity(
                           Coalesce(agent.askFallback,
                             Coalesce(wildcard.askFallback, resolvedDefaults.askFallback)),
                           resolvedDefaults.askFallback),
         autoAllowSkills |-> Boolean(
                               CoalesceFlag(agent.autoAllowSkills,
                                 CoalesceFlag(wildcard.autoAllowSkills,
                                              <<resolvedDefaults.autoAllowSkills>>)))]
  IN [defaults |-> resolvedDefaults,
      agent |-> resolvedAgent,
      allowlist |-> ResolvedAllowlist(wildcard, agent),
      file |-> file]

\* recordAllowlistUse: the file it saves
recordAllowlistUse(approvalsFile, agentId, entry, cmd, resolvedPath) ==
  LET target == AgentKey(agentId)
      allowlist == approvalsFile.agents[target].allowlist
      nextAllowlist ==
        [i \in 1..Len(allowlist) |->
           IF allowlist[i].pattern = entry.pattern
           THEN [allowlist[i] EXCEPT !.lastUsedAt = Now,
                                     !.lastUsedCommand = cmd,
                                     !.lastResolvedPath = resolvedPath]
           ELSE allowlist[i]]
  IN [approvalsFile EXCEPT !.agents[target].allowlist = nextAllowlist]

\* lines 406-407: the early returns
addAllowlistEntrySavesUnlessEmpty(approvalsFile, agentId, pattern) ==
  trim(pattern) # <<>>

\* addAllowlistEntry saves the file unless it returns early
addAllowlistEntrySaves(approvalsFile, agentId, pattern) ==
  LET allowlist == approvalsFile.agents[AgentKey(agentId)].allowlist
      trimmed == trim(pattern)
  IN /\ trimmed # <<>>
     /\ ~\E i \in 1..Len(allowlist) : allowlist[i].pattern = trimmed

\* addAllowlistEntry: the file object after the call
addAllowlistEntry(approvalsFile, agentId, pattern) ==
  IF addAllowlistEntrySaves(approvalsFile, agentId, pattern)
  THEN [approvalsFile EXCEPT !.agents[AgentKey(agentId)].allowlist =
          Append(@, [Entry(trim(pattern)) EXCEPT !.lastUsedAt = Now])]
  ELSE approvalsFile

(***************************************************************************)
(* State.  One exec call at a time runs through the gates of               *)
(* createExecTool.execute; pc is the place the call has reached.  Each     *)
(* gate draws the fields of params and defaults it reads when it reads     *)
(* them, and gate holds what the latest gate read and computed.  The       *)
(* approvals file on disk outlives the calls.                              *)
(***************************************************************************)
VARIABLES
  pc,                 \* "idle", "host", "security", "ask", "route", "nodes",
                      \* "approval", "spawn", "invoked", "running", "returned" or
                      \* "failed"
  calls,              \* exec calls started so far
  gate,               \* the latest gate: its name, what it read, what it computed
  elevatedRequested,
  host,
  security,
  ask,
  agentId,
  command,
  approvals,          \* what resolveExecApprovals returned to this call
  hostSecurity,
  hostAsk,
  askFallback,
  resolution,
  allowlistMatch,
  approvedByAsk,
  error,              \* the message of the Error the call threw, or None
  disk,               \* the approvals file
  fileReads,          \* reads of the approvals file by this call
  fileWrites,         \* saveExecApprovals calls by this call
  approvalRequests,   \* exec.approval.request calls by this call
  session,            \* the ProcessSession, Null before the spawn
  settled,
  outcome,            \* how the promise of the call settled, "pending" before
  yielded,
  timedOut,
  yieldTimer,         \* a timer is "unset", "armed", "fired" or "cleared"
  timeoutTimer,
  timeoutFinalizeTimer,
  signal,             \* the tool-call AbortSignal: "absent", "idle" or "aborted"
  kills,              \* killSession calls
  child,              \* the spawned process: "none", "child", "pty" or "closed"
  errorEmitted,       \* the child emitted "error"
  systemEvents,       \* the exit notifications enqueued, in order
  heartbeatWakes,
  call,         \* the library call under evaluation: its function, its inputs, its result
  registry,           \* the gateway's node registry: node id -> what its hello declared
  tickets,            \* the invoke tickets the router holds
  forwarded,          \* the node.invoke.request frames sent to nodes, in order
  callers,            \* the node.invoke RPC of each operator client and its rpc.res
  nextTicketId,
  nextSeq,            \* the seq of the next event of the server-to-client stream
  wire,               \* the event frames on their way to the client
  expectedSeq,        \* the seq the client expects next
  observed,           \* what the client has seen: event frames and seqGap marks
  queues,             \* session key -> the messages waiting for a turn
  turns,              \* session key -> the run ids of the turns in flight
  submitted,          \* messages submitted so far
  sessionStore,       \* the session store file: session key -> SessionEntry
  statusCall,         \* the session_status call under way: its locals
  storeOps            \* operations on the session store started so far

gateVars == <<pc, calls, gate, elevatedRequested, host, security, ask, agentId, command,
              approvals, hostSecurity, hostAsk, askFallback, resolution, allowlistMatch,
              approvedByAsk, error, disk, fileReads, fileWrites, approvalRequests>>

routerVars == <<registry, tickets, forwarded, callers, nextTicketId>>
streamVars == <<nextSeq, wire, expectedSeq, observed>>
queueVars == <<queues, turns, submitted>>
storeVars == <<sessionStore, statusCall, storeOps>>
hubVars == <<routerVars, streamVars, queueVars, storeVars>>

lifeVars == <<session, settled, outcome, yielded, timedOut, yieldTimer, timeoutTimer,
              timeoutFinalizeTimer, signal, kills, child, errorEmitted, systemEvents,
              heartbeatWakes, call, hubVars>>

vars == <<gateVars, lifeVars>>

(***************************************************************************)
(* Bounds and the values the inputs are drawn from.                        *)
(***************************************************************************)
MaxCalls == 2

Workdir == <<"/","w">>

CmdRg == <<"r","g"," ","x">>
CmdGpp == <<"g","+","+"," ","m">>
CmdUnresolved == <<"'","t","l","'">>
CmdBlank == <<" ">>
Commands == {CmdRg, CmdGpp, CmdUnresolved, CmdBlank}

AgentIds == {None, "main"}

ElevatedDefaultsChoices ==
  {Null,
   [enabled |-> FALSE, allowed |-> TRUE, defaultLevel |-> "on"],
   [enabled |-> TRUE, allowed |-> FALSE, defaultLevel |-> "on"],
   [enabled |-> TRUE, allowed |-> TRUE, defaultLevel |-> "on"],
   [enabled |-> TRUE, allowed |-> TRUE, defaultLevel |-> "off"]}

ParamsElevatedChoices == {None, "true", "false"}

DefaultsHostChoices == {None} \cup ExecHosts
RawHostChoices ==
  {NoText, Chars("sandbox"), <<" ","G","a","t","e","w","a","y"," ">>, Chars("node"),
   <<"d","o","c","k","e","r">>}

DefaultsSecurityChoices == {None} \cup ExecSecurities
RawSecurityChoices ==
  {NoText, Chars("deny"), Chars("allowlist"), <<"F","u","l","l"," ">>,
   <<"r","o","o","t">>}

DefaultsAskChoices == {None} \cup ExecAsks
RawAskChoices ==
  {NoText, <<" ","O","F","F">>, Chars("on-miss"), Chars("always"),
   <<"n","e","v","e","r">>}

\* what exec.approval.request can answer: null, a decision, or another string
DecisionChoices == {None, "deny", "allow-once", "allow-always", "later"}

PatRgName == <<"R","G">>

\* the scalars of agent "main" in the initial files: with security full and
\* ask off the request decides hostSecurity and hostAsk, the others cap them
InitScalars ==
  {[security |-> "full", ask |-> "off", askFallback |-> f, autoAllowSkills |-> NoFlag] :
     f \in {None, "allowlist", "full"}}
  \cup {NoScalars,
        [security |-> "deny", ask |-> None, askFallback |-> None, autoAllowSkills |-> NoFlag],
        [security |-> None, ask |-> "always", askFallback |-> "allowlist",
         autoAllowSkills |-> NoFlag]}

InitAgents ==
  {[k \in AgentKeys |->
      IF k = "main"
      THEN [security |-> sc.security, ask |-> sc.ask, askFallback |-> sc.askFallback,
            autoAllowSkills |-> sc.autoAllowSkills, allowlist |-> l]
      ELSE EmptyAgent] :
     sc \in InitScalars, l \in {<<>>, <<Entry(PatRgName)>>}}

\* a file whose only allowlist entry is under the wildcard key
WildcardDisk ==
  OnDisk([EmptyFile EXCEPT !.agents["*"].allowlist = <<Entry(PatRgName)>>])

InitDisks ==
  {Missing, WildcardDisk} \cup
  {OnDisk([EmptyFile EXCEPT !.agents = ag]) : ag \in InitAgents}

NoGate == [name |-> "none"]

GateInit ==
  /\ pc = "idle"
  /\ calls = 0
  /\ gate = NoGate
  /\ elevatedRequested = FALSE
  /\ host = None
  /\ security = None
  /\ ask = None
  /\ agentId = None
  /\ command = NoText
  /\ approvals = Null
  /\ hostSecurity = None
  /\ hostAsk = None
  /\ askFallback = None
  /\ resolution = Null
  /\ allowlistMatch = Null
  /\ approvedByAsk = FALSE
  /\ error = None
  /\ fileReads = 0
  /\ fileWrites = 0
  /\ approvalRequests = 0

LifeIdle ==
  /\ session = Null
  /\ settled = FALSE
  /\ outcome = "pending"
  /\ yielded = FALSE
  /\ timedOut = FALSE
  /\ yieldTimer = "unset"
  /\ timeoutTimer = "unset"
  /\ timeoutFinalizeTimer = "unset"
  /\ signal = "absent"
  /\ kills = 0
  /\ child = "none"
  /\ errorEmitted = FALSE
  /\ systemEvents = <<>>
  /\ heartbeatWakes = 0

\* no library call is under evaluation while the exec tool runs
NoCall == [fn |-> "none"]

\* the gateway hub before any peer has connected
RegistryNodes == {"node-a", "node-b"}
Operators == {"op-1", "op-2"}
SessionKeys == {"main", "agent:main:work"}
NotConnected == [connected |-> FALSE]
NoRpc == [state |-> "idle"]

RouterIdle ==
  /\ registry = [n \in RegistryNodes |-> NotConnected]
  /\ tickets = {}
  /\ forwarded = <<>>
  /\ callers = [c \in Operators |-> NoRpc]
  /\ nextTicketId = 1

StreamIdle ==
  /\ nextSeq = 1
  /\ wire = <<>>
  /\ expectedSeq = 1
  /\ observed = <<>>

QueueIdle ==
  /\ queues = [k \in SessionKeys |-> <<>>]
  /\ turns = [k \in SessionKeys |-> {}]
  /\ submitted = 0

NoStatus == [pc |-> "idle"]

StoreIdle ==
  /\ sessionStore = <<>>
  /\ statusCall = NoStatus
  /\ storeOps = 0

HubIdle == RouterIdle /\ StreamIdle /\ QueueIdle /\ StoreIdle

Init ==
  /\ GateInit
  /\ disk \in InitDisks
  /\ LifeIdle
  /\ call = NoCall
  /\ HubIdle

(***************************************************************************)
(* The gates of createExecTool.execute (bash-tools.exec.ts).               *)
(***************************************************************************)
ErrNoCommand == "Provide a command to start."
ErrElevatedEnabled == "elevated is not available right now. Failing gates: enabled"
ErrElevatedAllowFrom == "elevated is not available right now. Failing gates: allowFrom"
ErrHostNotAllowed == "exec host not allowed"
ErrGatewayDeny == "exec denied: host=gateway security=deny"
ErrUserDenied == "exec denied: user denied"
ErrApprovalRequired == "exec denied: approval required (approval UI not available)"
ErrAllowlistMiss == "exec denied: allowlist miss"
ErrInvalidRegExp == "SyntaxError: Invalid regular expression"

Enabled(elevatedDefaults) == elevatedDefaults # Null /\ elevatedDefaults.enabled
Allowed(elevatedDefaults) == elevatedDefaults # Null /\ elevatedDefaults.allowed

elevatedDefaultOn(elevatedDefaults) ==
  /\ elevatedDefaults # Null
  /\ elevatedDefaults.defaultLevel = "on"
  /\ elevatedDefaults.enabled
  /\ elevatedDefaults.allowed

ElevatedRequested(paramsElevated, elevatedDefaults) ==
  IF paramsElevated \in {"true", "false"} THEN paramsElevated = "true"
  ELSE elevatedDefaultOn(elevatedDefaults)

ElevatedUnavailableEnabledOnly(elevatedDefaults) == ~Enabled(elevatedDefaults)

ElevatedUnavailable(elevatedDefaults) ==
  ~Enabled(elevatedDefaults) \/ ~Allowed(elevatedDefaults)

ElevatedError(elevatedDefaults) ==
  IF ~Enabled(elevatedDefaults) THEN ErrElevatedEnabled ELSE ErrElevatedAllowFrom

\* a new call: every local of the previous call is gone
FreshCall ==
  /\ calls' = calls + 1
  /\ host' = None
  /\ security' = None
  /\ ask' = None
  /\ agentId' = None
  /\ command' = NoText
  /\ approvals' = Null
  /\ hostSecurity' = None
  /\ hostAsk' = None
  /\ askFallback' = None
  /\ resolution' = Null
  /\ allowlistMatch' = Null
  /\ approvedByAsk' = FALSE
  /\ fileReads' = 0
  /\ fileWrites' = 0
  /\ approvalRequests' = 0

\* lines 310-389: the command check and the elevated gate
Execute ==
  /\ pc \in {"idle", "failed", "spawn", "returned", "invoked"}
  /\ calls < MaxCalls
  /\ FreshCall
  /\ \/ \* !params.command
        /\ gate' = [name |-> "command"]
        /\ elevatedRequested' = FALSE
        /\ pc' = "failed"
        /\ error' = ErrNoCommand
     \/ \E paramsElevated \in ParamsElevatedChoices,
           elevatedDefaults \in ElevatedDefaultsChoices :
          LET requested == ElevatedRequested(paramsElevated, elevatedDefaults)
          IN /\ gate' = [name |-> "elevated",
                         paramsElevated |-> paramsElevated,
                         elevatedDefaults |-> elevatedDefaults]
             /\ elevatedRequested' = requested
             /\ IF requested /\ ElevatedUnavailable(elevatedDefaults)
                THEN pc' = "failed" /\ error' = ElevatedError(elevatedDefaults)
                ELSE pc' = "host" /\ error' = None
  /\ UNCHANGED <<disk, lifeVars>>

HostNotAllowedEvenElevated(elevated, requestedHost, configuredHost) ==
  requestedHost # None /\ requestedHost # configuredHost

HostNotAllowed(elevated, requestedHost, configuredHost) ==
  ~elevated /\ requestedHost # None /\ requestedHost # configuredHost

\* lines 390-401: the host gate
HostGate ==
  /\ pc = "host"
  /\ \E defaultsHost \in DefaultsHostChoices, paramsHost \in RawHostChoices :
       LET configuredHost == Coalesce(defaultsHost, "sandbox")
           requestedHost == normalizeExecHost(paramsHost)
       IN /\ gate' = [name |-> "host",
                      configuredHost |-> configuredHost,
                      requestedHost |-> requestedHost]
          /\ IF HostNotAllowed(elevatedRequested, requestedHost, configuredHost)
             THEN /\ host' = Coalesce(requestedHost, configuredHost)
                  /\ pc' = "failed"
                  /\ error' = ErrHostNotAllowed
             ELSE /\ host' = IF elevatedRequested THEN "gateway"
                             ELSE Coalesce(requestedHost, configuredHost)
                  /\ pc' = "security"
                  /\ error' = None
  /\ UNCHANGED <<calls, elevatedRequested, security, ask, agentId, command, approvals,
                 hostSecurity, hostAsk, askFallback, resolution, allowlistMatch,
                 approvedByAsk, disk, fileReads, fileWrites, approvalRequests, lifeVars>>

\* lines 403-408
ComposeSecurity ==
  /\ pc = "security"
  /\ \E defaultsSecurity \in DefaultsSecurityChoices, paramsSecurity \in RawSecurityChoices :
       LET configuredSecurity ==
             Coalesce(defaultsSecurity, IF host = "sandbox" THEN "deny" ELSE "allowlist")
           requestedSecurity == normalizeExecSecurity(paramsSecurity)
       IN /\ gate' = [name |-> "security",
                      configuredSecurity |-> configuredSecurity,
                      requestedSecurity |-> requestedSecurity]
          /\ security' = IF elevatedRequested THEN "full"
                         ELSE minSecurity(configuredSecurity,
                                          Coalesce(requestedSecurity, configuredSecurity))
  /\ pc' = "ask"
  /\ UNCHANGED <<calls, elevatedRequested, host, ask, agentId, command, approvals,
                 hostSecurity, hostAsk, askFallback, resolution, allowlistMatch,
                 approvedByAsk, error, disk, fileReads, fileWrites, approvalRequests,
                 lifeVars>>

\* lines 409-411
ComposeAsk ==
  /\ pc = "ask"
  /\ \E defaultsAsk \in DefaultsAskChoices, paramsAsk \in RawAskChoices :
       LET configuredAsk == Coalesce(defaultsAsk, "on-miss")
           requestedAsk == normalizeExecAsk(paramsAsk)
       IN /\ gate' = [name |-> "ask",
                      configuredAsk |-> configuredAsk,
                      requestedAsk |-> requestedAsk]
          /\ ask' = maxAsk(configuredAsk, Coalesce(requestedAsk, configuredAsk))
  /\ pc' = "route"
  /\ UNCHANGED <<calls, elevatedRequested, host, security, agentId, command, approvals,
                 hostSecurity, hostAsk, askFallback, resolution, allowlistMatch,
                 approvedByAsk, error, disk, fileReads, fileWrites, approvalRequests,
                 lifeVars>>

\* lines 413-447 and 674: host=sandbox passes no further gate
SandboxHost ==
  /\ pc = "route"
  /\ host = "sandbox"
  /\ gate' = [name |-> "sandbox"]
  /\ pc' = "spawn"
  /\ UNCHANGED <<calls, elevatedRequested, host, security, ask, agentId, command,
                 approvals, hostSecurity, hostAsk, askFallback, resolution,
                 allowlistMatch, approvedByAsk, error, disk, fileReads, fileWrites,
                 approvalRequests, lifeVars>>

(***************************************************************************)
(* host=gateway: lines 588-672.                                            *)
(***************************************************************************)
GatewayOverrides ==
  [security |-> "allowlist", ask |-> None, askFallback |-> None, autoAllowSkills |-> NoFlag]

\* lines 600-602
RequiresAsk(hAsk, hSecurity, match) ==
  hAsk = "always" \/ (hAsk = "on-miss" /\ hSecurity = "allowlist" /\ match = Null)

\* lines 629-640: with no decision, askFallback lets the call go on
FallbackApprovesAlways(fallback, match) ==
  fallback = "full" \/ fallback = "allowlist"

FallbackApproves(fallback, match) ==
  fallback = "full" \/ (fallback = "allowlist" /\ match # Null)

\* lines 621-657: approvedByAsk after the decision
ApprovedByAsk(decision, fallback, match) ==
  \/ decision = None /\ FallbackApproves(fallback, match)
  \/ decision = "allow-once"
  \/ decision = "allow-always"

\* lines 647-651
AllowAlwaysPattern(res, cmd) ==
  IF res # Null THEN CoalesceText(res.resolvedPath, res.rawExecutable)
  ELSE NonSpacePrefix(cmd)

\* lines 644-655: the decision makes the call add an allowlist entry
AddsEntryOnAnyApproval(decision, hSecurity, pattern) ==
  decision \in {"allow-once", "allow-always"} /\ hSecurity = "allowlist" /\ pattern # <<>>

AddsEntry(decision, hSecurity, pattern) ==
  decision = "allow-always" /\ hSecurity = "allowlist" /\ pattern # <<>>

\* lines 457 and 593: the security check of hosts node and gateway
SecurityDeniesNever(hSecurity) ==
  FALSE

SecurityDenies(hSecurity) ==
  hSecurity = "deny"

\* line 659
AllowlistMissWrongMode(hSecurity, match, approved) ==
  hSecurity = "deny" /\ match = Null /\ ~approved

AllowlistMiss(hSecurity, match, approved) ==
  hSecurity = "allowlist" /\ match = Null /\ ~approved

\* lines 659-671 on the file object of the call: where the call goes, the
\* error it throws, the file object afterwards and the saves made (saved
\* counts the saves of addAllowlistEntry before)
GatewayFinish(file, saved, hSecurity, match, approved, aid, cmd, res) ==
  IF AllowlistMiss(hSecurity, match, approved)
  THEN [pc |-> "failed", error |-> ErrAllowlistMiss, file |-> file, saved |-> saved]
  ELSE IF match # Null
       THEN [pc |-> "spawn", error |-> None,
             file |-> recordAllowlistUse(file, aid, match, cmd, res.resolvedPath),
             saved |-> saved + 1]
       ELSE [pc |-> "spawn", error |-> None, file |-> file, saved |-> saved]

\* lines 588-620: up to the approval request, or to the end of the gate when
\* no approval is required
GatewayGate ==
  /\ pc = "route"
  /\ host = "gateway"
  /\ \E aid \in AgentIds, cmd \in Commands :
       LET file == ensureExecApprovals(disk)
           resolved == resolveExecApprovals(file, aid, GatewayOverrides)
           hSecurity == minSecurity(security, resolved.agent.security)
           hAsk == maxAsk(ask, resolved.agent.ask)
           res == resolveCommandResolution(cmd, Workdir)
           match == IF hSecurity = "allowlist"
                    THEN matchAllowlist(resolved.allowlist, res) ELSE Null
           finish == GatewayFinish(file, 0, hSecurity, match, FALSE, aid, cmd, res)
       IN /\ gate' = [name |-> "gateway"]
          /\ agentId' = aid
          /\ command' = cmd
          /\ hostSecurity' = hSecurity
          /\ hostAsk' = hAsk
          /\ askFallback' = resolved.agent.askFallback
          /\ fileReads' = fileReads + 1
          /\ approvedByAsk' = FALSE
          /\ IF SecurityDenies(hSecurity)
             THEN /\ pc' = "failed"
                  /\ error' = ErrGatewayDeny
                  /\ resolution' = Null
                  /\ allowlistMatch' = Null
                  /\ approvals' = resolved
                  /\ disk' = OnDisk(file)
                  /\ fileWrites' = fileWrites + 1
                  /\ approvalRequests' = approvalRequests
             ELSE IF match = Thrown
             THEN /\ pc' = "failed"
                  /\ error' = ErrInvalidRegExp
                  /\ resolution' = res
                  /\ allowlistMatch' = Null
                  /\ approvals' = resolved
                  /\ disk' = OnDisk(file)
                  /\ fileWrites' = fileWrites + 1
                  /\ approvalRequests' = approvalRequests
             ELSE IF RequiresAsk(hAsk, hSecurity, match)
             THEN /\ pc' = "approval"
                  /\ error' = None
                  /\ resolution' = res
                  /\ allowlistMatch' = match
                  /\ approvals' = resolved
                  /\ disk' = OnDisk(file)
                  /\ fileWrites' = fileWrites + 1
                  /\ approvalRequests' = approvalRequests + 1
             ELSE /\ pc' = finish.pc
                  /\ error' = finish.error
                  /\ resolution' = res
                  /\ allowlistMatch' = match
                  /\ approvals' = [resolved EXCEPT !.file = finish.file]
                  /\ disk' = OnDisk(finish.file)
                  /\ fileWrites' = fileWrites + 1 + finish.saved
                  /\ approvalRequests' = approvalRequests
  /\ UNCHANGED <<calls, elevatedRequested, host, security, ask, lifeVars>>

\* lines 621-671: the call resumes with what exec.approval.request answered
ApprovalDecision ==
  /\ pc = "approval"
  /\ host = "gateway"
  /\ \E decision \in DecisionChoices :
       LET pattern == AllowAlwaysPattern(resolution, command)
           adds == AddsEntry(decision, hostSecurity, pattern)
           saved == IF adds /\ addAllowlistEntrySaves(approvals.file, agentId, pattern)
                    THEN 1 ELSE 0
           file == IF adds THEN addAllowlistEntry(approvals.file, agentId, pattern)
                   ELSE approvals.file
           approved == ApprovedByAsk(decision, askFallback, allowlistMatch)
           finish == GatewayFinish(file, saved, hostSecurity, allowlistMatch, approved,
                                   agentId, command, resolution)
       IN /\ gate' = [name |-> "approval", decision |-> decision]
          /\ IF decision = "deny"
             THEN /\ pc' = "failed"
                  /\ error' = ErrUserDenied
                  /\ UNCHANGED <<approvedByAsk, approvals, disk, fileWrites>>
             ELSE IF decision = None /\ ~FallbackApproves(askFallback, allowlistMatch)
             THEN /\ pc' = "failed"
                  /\ error' = ErrApprovalRequired
                  /\ UNCHANGED <<approvedByAsk, approvals, disk, fileWrites>>
             ELSE /\ pc' = finish.pc
                  /\ error' = finish.error
                  /\ approvedByAsk' = approved
                  /\ approvals' = [approvals EXCEPT !.file = finish.file]
                  /\ disk' = IF finish.saved > 0 THEN OnDisk(finish.file) ELSE disk
                  /\ fileWrites' = fileWrites + finish.saved
  /\ UNCHANGED <<calls, elevatedRequested, host, security, ask, agentId, command,
                 hostSecurity, hostAsk, askFallback, resolution, allowlistMatch,
                 fileReads, approvalRequests, lifeVars>>


(***************************************************************************)
(* host=node: lines 449-586.  A node is [nodeId, commands], commands being *)
(* the set of the commands it declares.                                    *)
(***************************************************************************)
ErrNodeDeny == "exec denied: host=node security=deny"
ErrNodeNotAllowed == "exec node not allowed"
ErrNoNode == "exec host=node requires a paired node (none available)"
ErrNodeRequired == "exec host=node requires a node id when multiple nodes are available"
ErrUnknownNode == "unknown node"
ErrNoSystemRun == "exec host=node requires a node that supports system.run"

NodeA == <<"a">>
NodeB == <<"b">>
BoundNodeChoices == {NoText, NodeA}
RequestedNodeChoices == {NoText, <<"a", " ">>, NodeB}
NodeListChoices ==
  {<<>>,
   << [nodeId |-> NodeA, commands |-> {"system.run"}] >>,
   << [nodeId |-> NodeA, commands |-> {"canvas.snapshot"}] >>,
   << [nodeId |-> NodeA, commands |-> {"system.run"}],
      [nodeId |-> NodeB, commands |-> {"system.run"}] >>}

\* the node host resolves the command itself: the call only forwards it
NodeCommands == {CmdRg}

\* value?.trim(), "" when the value is missing
TrimmedOrEmpty(value) == IF value = NoText THEN <<>> ELSE trim(value)

\* line 462
NodeNotAllowedNever(boundNode, requestedNode) ==
  FALSE

NodeNotAllowed(boundNode, requestedNode) ==
  boundNode # <<>> /\ requestedNode # <<>> /\ boundNode # requestedNode

\* resolveNodeIdFromList(nodes, query, allowDefault): the node id, or the
\* message of the error it throws
resolveNodeIdFromList(nodes, query, allowDefault) ==
  IF query # <<>>
  THEN IF \E i \in 1..Len(nodes) : nodes[i].nodeId = query
       THEN [ok |-> TRUE, nodeId |-> query]
       ELSE [ok |-> FALSE, error |-> ErrUnknownNode]
  ELSE IF allowDefault /\ Len(nodes) = 1
       THEN [ok |-> TRUE, nodeId |-> nodes[1].nodeId]
       ELSE [ok |-> FALSE, error |-> "node required"]

\* lines 483-486
supportsSystemRun(nodes, id) ==
  \E i \in 1..Len(nodes) : nodes[i].nodeId = id /\ "system.run" \in nodes[i].commands

\* line 497
NodeRequiresAsk(hAsk) == hAsk = "always" \/ hAsk = "on-miss"

\* lines 449-465: the approvals, the deny check and the bound node, up to
\* the call of listNodes
NodeGate ==
  /\ pc = "route"
  /\ host = "node"
  /\ \E aid \in AgentIds, defaultsNode \in BoundNodeChoices,
        paramsNode \in RequestedNodeChoices :
       LET file == ensureExecApprovals(disk)
           resolved == resolveExecApprovals(file, aid, GatewayOverrides)
           hSecurity == minSecurity(security, resolved.agent.security)
           boundNode == TrimmedOrEmpty(defaultsNode)
           requestedNode == TrimmedOrEmpty(paramsNode)
       IN /\ agentId' = aid
          /\ approvals' = resolved
          /\ hostSecurity' = hSecurity
          /\ hostAsk' = maxAsk(ask, resolved.agent.ask)
          /\ askFallback' = resolved.agent.askFallback
          /\ disk' = OnDisk(file)
          /\ fileReads' = fileReads + 1
          /\ fileWrites' = fileWrites + 1
          /\ gate' = [name |-> "node", boundNode |-> boundNode,
                      requestedNode |-> requestedNode,
                      nodeQuery |-> IF boundNode # <<>> THEN boundNode ELSE requestedNode]
          /\ IF SecurityDenies(hSecurity)
             THEN /\ pc' = "failed"
                  /\ error' = ErrNodeDeny
             ELSE IF NodeNotAllowed(boundNode, requestedNode)
             THEN /\ pc' = "failed"
                  /\ error' = ErrNodeNotAllowed
             ELSE /\ pc' = "nodes"
                  /\ error' = None
  /\ UNCHANGED <<calls, elevatedRequested, host, security, ask, command, resolution,
                 allowlistMatch, approvedByAsk, approvalRequests, lifeVars>>

\* lines 544-560: node.invoke is called, the call returns its payload
NodeInvoke(nodeInfo, approved, approvalDecision) ==
  /\ gate' = [name |-> "invoke", nodeId |-> nodeInfo.nodeId,
              commands |-> nodeInfo.commands, approved |-> approved,
              approvalDecision |-> approvalDecision]
  /\ pc' = "invoked"
  /\ error' = None
  /\ approvedByAsk' = approved

\* lines 466-516: the nodes are listed and one is chosen, up to the approval
\* request, or to node.invoke when no approval is required
NodeSelect ==
  /\ pc = "nodes"
  /\ \E nodes \in NodeListChoices, cmd \in NodeCommands :
       LET chosen == resolveNodeIdFromList(nodes, gate.nodeQuery, gate.nodeQuery = <<>>)
           nodeInfo == nodes[CHOOSE i \in 1..Len(nodes) : nodes[i].nodeId = chosen.nodeId]
           listed == [name |-> "nodes", nodes |-> nodes, nodeQuery |-> gate.nodeQuery]
       IN /\ command' = cmd
          /\ IF Len(nodes) = 0
             THEN /\ gate' = listed
                  /\ pc' = "failed"
                  /\ error' = ErrNoNode
                  /\ UNCHANGED <<approvedByAsk, approvalRequests>>
             ELSE IF ~chosen.ok
             THEN /\ gate' = listed
                  /\ pc' = "failed"
                  /\ error' = IF gate.nodeQuery = <<>> /\ chosen.error = "node required"
                              THEN ErrNodeRequired ELSE chosen.error
                  /\ UNCHANGED <<approvedByAsk, approvalRequests>>
             ELSE IF ~supportsSystemRun(nodes, chosen.nodeId)
             THEN /\ gate' = listed
                  /\ pc' = "failed"
                  /\ error' = ErrNoSystemRun
                  /\ UNCHANGED <<approvedByAsk, approvalRequests>>
             ELSE IF NodeRequiresAsk(hostAsk)
             THEN /\ gate' = [name |-> "nodes", nodeInfo |-> nodeInfo]
                  /\ pc' = "approval"
                  /\ error' = None
                  /\ approvalRequests' = approvalRequests + 1
                  /\ UNCHANGED approvedByAsk
             ELSE /\ NodeInvoke(nodeInfo, FALSE, None)
                  /\ UNCHANGED approvalRequests
  /\ UNCHANGED <<calls, elevatedRequested, host, security, ask, agentId, approvals,
                 hostSecurity, hostAsk, askFallback, resolution, allowlistMatch, disk,
                 fileReads, fileWrites, lifeVars>>

\* lines 525-534: with no decision askFallback lets the call go on to the node
NodeFallbackProceeds(fallback) == fallback = "full" \/ fallback = "allowlist"

\* lines 517-560: the call resumes with what exec.approval.request answered
NodeDecision ==
  /\ pc = "approval"
  /\ host = "node"
  /\ \E decision \in DecisionChoices :
       IF decision = "deny"
       THEN /\ gate' = [name |-> "node-approval", decision |-> decision]
            /\ pc' = "failed"
            /\ error' = ErrUserDenied
            /\ UNCHANGED approvedByAsk
       ELSE IF decision = None /\ ~NodeFallbackProceeds(askFallback)
       THEN /\ gate' = [name |-> "node-approval", decision |-> decision]
            /\ pc' = "failed"
            /\ error' = ErrApprovalRequired
            /\ UNCHANGED approvedByAsk
       ELSE NodeInvoke(gate.nodeInfo,
                       \/ decision \in {"allow-once", "allow-always"}
                       \/ (decision = None /\ askFallback = "full"),
                       IF decision = "allow-always" THEN "allow-always"
                       ELSE IF decision = "allow-once"
                               \/ (decision = None /\ askFallback = "full")
                       THEN "allow-once" ELSE None)
  /\ UNCHANGED <<calls, elevatedRequested, host, security, ask, agentId, command,
                 approvals, hostSecurity, hostAsk, askFallback, resolution,
                 allowlistMatch, disk, fileReads, fileWrites, approvalRequests,
                 lifeVars>>

(***************************************************************************)
(* The session of a spawned command: lines 267-283, 335-344 and 674-998.   *)
(***************************************************************************)
ErrTimedOut == "Command timed out after"
ErrAbortedBySignal == "Command aborted by signal"
ErrNoExitCode == "Command aborted before exit code was captured"
ErrExitCode == "Command exited with code"
ErrChild == "child error"

\* the variables of a call that the session leaves alone
callVars == <<calls, elevatedRequested, host, security, ask, agentId, command, approvals,
              hostSecurity, hostAsk, askFallback, resolution, allowlistMatch,
              approvedByAsk, disk, fileReads, fileWrites, approvalRequests, call,
              hubVars>>

\* an optional number is <<>> (undefined, or null) or <<n>>
defaultBackgroundMs == 10000
defaultTimeoutSec == 1800
timeoutFinalizeMs == 1000

clampNumber(value, defaultValue, min, max) ==
  IF value = <<>> THEN defaultValue
  ELSE IF value[1] < min THEN min
  ELSE IF value[1] > max THEN max
  ELSE value[1]

\* lines 340-344: null (<<>>) when backgrounding is not allowed
yieldWindow(allowBackground, backgroundRequested, yieldMs) ==
  IF allowBackground
  THEN IF backgroundRequested THEN <<0>>
       ELSE <<clampNumber(yieldMs, defaultBackgroundMs, 10, 120000)>>
  ELSE <<>>

\* lines 788-789
effectiveTimeout(timeout) == IF timeout # <<>> THEN timeout[1] ELSE defaultTimeoutSec

\* lines 744-770
NewSession(notifyOnExit, sessionKey) ==
  [notifyOnExit |-> notifyOnExit,
   sessionKey |-> IF sessionKey = NoText \/ trim(sessionKey) = <<>> THEN NoText
                  ELSE trim(sessionKey),
   exitNotified |-> FALSE,
   exited |-> FALSE,
   exitCode |-> "undefined",
   exitSignal |-> "undefined",
   status |-> "running",
   backgrounded |-> FALSE]

markBackgrounded(s) == [s EXCEPT !.backgrounded = TRUE]

markExited(s, exitCode, exitSignal, status) ==
  [s EXCEPT !.exited = TRUE, !.exitCode = exitCode, !.exitSignal = exitSignal,
            !.status = status]

\* line 268: the session has been notified of already
ExitNotifiedNever(s) == FALSE

ExitNotified(s) == s.exitNotified

\* lines 267-283
NotifiesForeground(s) ==
  /\ s.notifyOnExit
  /\ ~ExitNotified(s)
  /\ s.sessionKey # NoText
  /\ trim(s.sessionKey) # <<>>

Notifies(s) ==
  /\ s.backgrounded
  /\ s.notifyOnExit
  /\ ~ExitNotified(s)
  /\ s.sessionKey # NoText
  /\ trim(s.sessionKey) # <<>>

ExitLabel(s) ==
  IF s.exitSignal \notin {"undefined", "null", "0"}
  THEN <<"signal", s.exitSignal>>
  ELSE <<"code", IF s.exitCode \in {"undefined", "null"} THEN "0" ELSE s.exitCode>>

maybeNotifyOnExit(s, status) ==
  IF Notifies(s)
  THEN [session |-> [s EXCEPT !.exitNotified = TRUE],
        events |-> << [status |-> status, exitLabel |-> ExitLabel(s)] >>]
  ELSE [session |-> s, events |-> <<>>]

\* clearTimeout on a timer that was set
Cleared(timer) == IF timer = "armed" THEN "cleared" ELSE timer

\* lines 802-805: onAbortSignal calls killSession
AbortKillsAlways(isYielded, backgrounded) == TRUE

AbortKills(isYielded, backgrounded) == ~(isYielded \/ backgrounded)

\* lines 808-816: onTimeout calls killSession
TimeoutKillsForeground(backgrounded) == ~backgrounded

TimeoutKills(backgrounded) == TRUE

\* lines 906 and 917: the yield marks the session backgrounded
YieldBackgroundsAlways(isSettled) == TRUE

YieldBackgrounds(isSettled) == ~isSettled

\* lines 782-786: settle runs its function unless the call has settled
SettlesAgain(isSettled) == TRUE

Settles(isSettled) == ~isSettled

\* lines 930-931
isSuccessDespiteTimeout(code, exitSignal, aborted, isTimedOut) ==
  code = "0" /\ exitSignal = "null" /\ ~aborted

isSuccess(code, exitSignal, aborted, isTimedOut) ==
  code = "0" /\ exitSignal = "null" /\ ~aborted /\ ~isTimedOut

\* lines 943-949; a signal 0 is falsy
ExitReason(code, exitSignal, isTimedOut) ==
  IF isTimedOut THEN ErrTimedOut
  ELSE IF exitSignal \notin {"null", "0"} THEN ErrAbortedBySignal
  ELSE IF code = "null" THEN ErrNoExitCode
  ELSE ErrExitCode


YieldMsChoices == {<<>>, <<0>>, <<5500>>, <<200000>>}
TimeoutChoices == {<<>>, <<0>>, <<5>>}
SessionKeyChoices == {NoText, <<" ">>, <<"s"," ">>}
CloseChoices == {<<"0", "null">>, <<"1", "null">>, <<"null", "SIGKILL">>}
PtyExitChoices == {<<"0", "undefined">>, <<"1", "0">>, <<"0", "9">>}

\* lines 674-923: the spawn, the session, the signal, the timers and the
\* executor of the promise, which run without a pause
Spawn ==
  /\ pc = "spawn"
  /\ session = Null
  /\ \E allowBackground \in BOOLEAN, background \in BOOLEAN, yieldMs \in YieldMsChoices,
        timeout \in TimeoutChoices, notifyOnExit \in BOOLEAN,
        sessionKey \in SessionKeyChoices, pty \in BOOLEAN, sandboxed \in BOOLEAN,
        sig \in {"absent", "idle", "aborted"} :
       LET window == yieldWindow(allowBackground, background, yieldMs)
           usePty == pty /\ ~sandboxed
           s == NewSession(notifyOnExit, sessionKey)
           now == window = <<0>> /\ YieldBackgrounds(FALSE)
       IN /\ sandboxed => host = "sandbox"
          /\ gate' = [name |-> "spawn", allowBackground |-> allowBackground,
                      background |-> background, yieldWindow |-> window,
                      effectiveTimeout |-> effectiveTimeout(timeout)]
          /\ child' = IF usePty THEN "pty" ELSE "child"
          /\ signal' = sig
          /\ kills' = IF sig = "aborted" /\ AbortKills(FALSE, s.backgrounded) THEN 1 ELSE 0
          /\ timeoutTimer' = IF effectiveTimeout(timeout) > 0 THEN "armed" ELSE "unset"
          /\ yieldTimer' = IF window # <<>> /\ window # <<0>> THEN "armed" ELSE "unset"
          /\ yielded' = now
          /\ session' = IF now THEN markBackgrounded(s) ELSE s
          /\ settled' = now
          /\ outcome' = IF now THEN "running" ELSE "pending"
          /\ pc' = IF now THEN "returned" ELSE "running"
  /\ error' = None
  /\ UNCHANGED <<callVars, timedOut, timeoutFinalizeTimer, errorEmitted, systemEvents,
                 heartbeatWakes>>

\* setTimeout: the armed timers fire in the order of their delays, counted in
\* milliseconds from the spawn (lines 823-825, 812-814 and 916-921)
YieldDue == gate.yieldWindow[1]
TimeoutDue == gate.effectiveTimeout * 1000
FinalizeDue == TimeoutDue + timeoutFinalizeMs

\* lines 802-805 and 820: the tool-call signal aborts
AbortSignal ==
  /\ session # Null
  /\ signal = "idle"
  /\ signal' = "aborted"
  /\ kills' = IF AbortKills(yielded, session.backgrounded) THEN kills + 1 ELSE kills
  /\ UNCHANGED <<pc, gate, error, callVars, session, settled, outcome, yielded, timedOut,
                 yieldTimer, timeoutTimer, timeoutFinalizeTimer, child, errorEmitted,
                 systemEvents, heartbeatWakes>>

\* lines 808-816 and 823-825: the timeout timer fires
Timeout ==
  /\ timeoutTimer = "armed"
  /\ yieldTimer = "armed" => TimeoutDue <= YieldDue
  /\ timeoutTimer' = "fired"
  /\ timedOut' = TRUE
  /\ kills' = IF TimeoutKills(session.backgrounded) THEN kills + 1 ELSE kills
  /\ timeoutFinalizeTimer' = IF timeoutFinalizeTimer = "unset" THEN "armed"
                             ELSE timeoutFinalizeTimer
  /\ UNCHANGED <<pc, gate, error, callVars, session, settled, outcome, yielded,
                 yieldTimer, signal, child, errorEmitted, systemEvents, heartbeatWakes>>

\* lines 790-799 and 812-814: the finalize timer fires
FinalizeTimeout ==
  /\ timeoutFinalizeTimer = "armed"
  /\ yieldTimer = "armed" => FinalizeDue <= YieldDue
  /\ timeoutFinalizeTimer' = "fired"
  /\ IF session.exited
     THEN UNCHANGED <<pc, error, session, settled, outcome, systemEvents, heartbeatWakes>>
     ELSE LET notified == maybeNotifyOnExit(markExited(session, "null", "SIGKILL", "failed"),
                                            "failed")
          IN /\ session' = notified.session
             /\ systemEvents' = systemEvents \o notified.events
             /\ heartbeatWakes' = heartbeatWakes + Len(notified.events)
             /\ IF settled \/ ~Settles(settled)
                THEN UNCHANGED <<pc, error, settled, outcome>>
                ELSE /\ settled' = TRUE
                     /\ outcome' = "rejected"
                     /\ error' = ErrTimedOut
                     /\ pc' = "failed"
  /\ UNCHANGED <<gate, callVars, yielded, timedOut, yieldTimer, timeoutTimer, signal,
                 kills, child, errorEmitted>>

\* lines 916-921: the yield timer fires
YieldTimer ==
  /\ yieldTimer = "armed"
  /\ timeoutTimer = "armed" => YieldDue < TimeoutDue
  /\ timeoutFinalizeTimer = "armed" => YieldDue < FinalizeDue
  /\ yieldTimer' = "fired"
  /\ IF YieldBackgrounds(settled)
     THEN /\ yielded' = TRUE
          /\ session' = markBackgrounded(session)
          /\ IF ~Settles(settled)
             THEN UNCHANGED <<pc, settled, outcome>>
             ELSE /\ settled' = TRUE
                  /\ outcome' = "running"
                  /\ pc' = "returned"
     ELSE UNCHANGED <<pc, yielded, session, settled, outcome>>
  /\ UNCHANGED <<gate, error, callVars, timedOut, timeoutTimer, timeoutFinalizeTimer,
                 signal, kills, child, errorEmitted, systemEvents, heartbeatWakes>>

\* lines 925-974
handleExit(code, exitSignal) ==
  LET success == isSuccess(code, exitSignal, signal = "aborted", timedOut)
      status == IF success THEN "completed" ELSE "failed"
      notified == maybeNotifyOnExit(markExited(session, code, exitSignal, status), status)
  IN /\ yieldTimer' = Cleared(yieldTimer)
     /\ timeoutTimer' = Cleared(timeoutTimer)
     /\ timeoutFinalizeTimer' = Cleared(timeoutFinalizeTimer)
     /\ session' = notified.session
     /\ systemEvents' = systemEvents \o notified.events
     /\ heartbeatWakes' = heartbeatWakes + Len(notified.events)
     /\ IF yielded \/ session.backgrounded \/ ~Settles(settled)
        THEN UNCHANGED <<pc, error, settled, outcome>>
        ELSE /\ settled' = TRUE
             /\ outcome' = IF success THEN "completed" ELSE "rejected"
             /\ error' = IF success THEN None ELSE ExitReason(code, exitSignal, timedOut)
             /\ pc' = IF success THEN "returned" ELSE "failed"

\* lines 985-987: the child closes
ChildClose ==
  /\ child = "child"
  /\ child' = "closed"
  /\ \E e \in CloseChoices : handleExit(e[1], e[2])
  /\ UNCHANGED <<gate, callVars, yielded, timedOut, signal, kills, errorEmitted>>

\* lines 979-983: the pty exits; no exit code is null, no signal and signal 0 are null
PtyExit ==
  /\ child = "pty"
  /\ child' = "closed"
  /\ \E e \in PtyExitChoices :
       handleExit(IF e[1] = "undefined" THEN "null" ELSE e[1],
                  IF e[2] \in {"undefined", "0"} THEN "null" ELSE e[2])
  /\ UNCHANGED <<gate, callVars, yielded, timedOut, signal, kills, errorEmitted>>

\* lines 989-996: the child emits "error"
ChildError ==
  /\ child = "child"
  /\ ~errorEmitted
  /\ errorEmitted' = TRUE
  /\ yieldTimer' = Cleared(yieldTimer)
  /\ timeoutTimer' = Cleared(timeoutTimer)
  /\ timeoutFinalizeTimer' = Cleared(timeoutFinalizeTimer)
  /\ LET notified == maybeNotifyOnExit(markExited(session, "null", "null", "failed"),
                                       "failed")
     IN /\ session' = notified.session
        /\ systemEvents' = systemEvents \o notified.events
        /\ heartbeatWakes' = heartbeatWakes + Len(notified.events)
  /\ IF ~Settles(settled)
     THEN UNCHANGED <<pc, error, settled, outcome>>
     ELSE /\ settled' = TRUE
          /\ outcome' = "rejected"
          /\ error' = ErrChild
          /\ pc' = "failed"
  /\ UNCHANGED <<gate, callVars, yielded, timedOut, signal, kills, child>>

Next ==
  \/ Execute
  \/ HostGate
  \/ ComposeSecurity
  \/ ComposeAsk
  \/ SandboxHost
  \/ GatewayGate
  \/ ApprovalDecision
  \/ NodeGate
  \/ NodeSelect
  \/ NodeDecision

Spec == Init /\ [][Next]_vars

\* a call that reached the spawn on host=sandbox with nothing configured
LifeInit ==
  /\ pc = "spawn"
  /\ calls = 1
  /\ gate = [name |-> "sandbox"]
  /\ elevatedRequested = FALSE
  /\ host = "sandbox"
  /\ security = "deny"
  /\ ask = "on-miss"
  /\ agentId = None
  /\ command = NoText
  /\ approvals = Null
  /\ hostSecurity = None
  /\ hostAsk = None
  /\ askFallback = None
  /\ resolution = Null
  /\ allowlistMatch = Null
  /\ approvedByAsk = FALSE
  /\ error = None
  /\ fileReads = 0
  /\ fileWrites = 0
  /\ approvalRequests = 0
  /\ disk = Missing
  /\ LifeIdle
  /\ call = NoCall
  /\ HubIdle

LifeNext ==
  \/ Spawn
  \/ AbortSignal
  \/ Timeout
  \/ FinalizeTimeout
  \/ YieldTimer
  \/ ChildClose
  \/ PtyExit
  \/ ChildError

LifeSpec == LifeInit /\ [][LifeNext]_vars

(***************************************************************************)
(* The claims about the session of a spawned command, under LifeSpec.      *)
(***************************************************************************)

\* C1: an abort of the tool-call signal that arrives once the session is
\* backgrounded issues no kill, an abort that arrives before (also one that
\* is already there at the spawn) issues exactly one, and the timeout timer
\* firing issues a kill whether or not the session is backgrounded.
C1_AbortSparesBackgroundedTimeoutKills ==
  [][/\ (session # Null /\ signal = "idle" /\ signal' = "aborted")
          => kills' = IF session.backgrounded THEN kills ELSE kills + 1
     /\ (session = Null /\ signal' = "aborted") => kills' = 1
     /\ (timeoutTimer = "armed" /\ timeoutTimer' = "fired") => kills' = kills + 1]_vars

\* the abort came after the yield and killed nothing, the timeout then killed
C1_Witness ==
  /\ session # Null
  /\ session.backgrounded
  /\ signal = "aborted"
  /\ timeoutTimer = "fired"
  /\ kills = 1

\* C2: the call resolves as running exactly when the session is marked
\* backgrounded, which happens at the spawn when background=true and
\* otherwise when the yield timer fires before the call settled and before
\* the session exited; a process that exits before the yield settles the
\* call as completed (exit code 0, no signal) or as a failure, and a session
\* that exited without being backgrounded is never backgrounded afterwards.
C2_RunningIffBackgrounded ==
  /\ [](session # Null =>
          /\ (outcome = "running") <=> session.backgrounded
          /\ (gate.allowBackground /\ gate.background) => outcome = "running"
          /\ ~gate.allowBackground => outcome # "running"
          /\ outcome = "completed" =>
               session.exitCode = "0" /\ session.exitSignal = "null")
  /\ [][/\ (session = Null /\ session' # Null)
             => (session'.backgrounded <=> (gate'.allowBackground /\ gate'.background))
        /\ (session # Null /\ ~session.backgrounded /\ session'.backgrounded)
             => /\ yieldTimer = "armed" /\ yieldTimer' = "fired"
                /\ ~session.exited /\ child # "closed"
                /\ outcome = "pending" /\ outcome' = "running"
        /\ (session # Null /\ ~session.backgrounded /\ child # "closed" /\ child' = "closed")
             => /\ outcome' \in {"completed", "rejected"}
                /\ ~session'.backgrounded
        /\ (session # Null /\ ~session.backgrounded /\ session.exited)
             => ~session'.backgrounded]_vars

\* the yield timer backgrounded the session, the process exited later
C2_Witness ==
  /\ session # Null
  /\ outcome = "running"
  /\ yieldTimer = "fired"
  /\ child = "closed"
  /\ session.exited

GatewayDone == host = "gateway" /\ gate.name \in {"gateway", "approval"} /\ pc # "approval"

\* C4: on host=gateway with effective security allowlist the call reaches the
\* spawn only if the executable matched an allowlist entry or the approval
\* step approved the call; when matchAllowlist found no entry and nothing
\* approved, the call fails with 'allowlist miss' or an approval denial.
C4_AllowlistGate ==
  (GatewayDone /\ hostSecurity = "allowlist") =>
     /\ pc \in {"spawn", "failed"}
     /\ pc = "spawn" => (allowlistMatch # Null \/ approvedByAsk)
     /\ (allowlistMatch = Null /\ ~approvedByAsk) =>
          /\ pc = "failed"
          /\ error \in {ErrAllowlistMiss, ErrUserDenied, ErrApprovalRequired,
                        ErrInvalidRegExp}
          /\ error = ErrInvalidRegExp <=> gate.name = "gateway" /\ resolution # Null
                                          /\ matchAllowlist(approvals.allowlist, resolution)
                                               = Thrown

\* an allowlist miss that the approval step approved
C4_Witness ==
  /\ GatewayDone
  /\ hostSecurity = "allowlist"
  /\ pc = "spawn"
  /\ allowlistMatch = Null
  /\ approvedByAsk

\* the command of the call matches the allowlist resolved for the call
MatchesAllowlist ==
  LET match == matchAllowlist(approvals.allowlist, resolution)
  IN match # Null /\ match # Thrown

\* C5: on host=gateway, when the approval request yields no decision, the
\* outcome follows askFallback: full permits the command, allowlist permits
\* it exactly when the command matches the allowlist, anything else denies.
C5_NullDecisionFollowsFallback ==
  (GatewayDone /\ gate.name = "approval" /\ gate.decision = None) =>
     /\ askFallback = "full" => pc = "spawn"
     /\ askFallback = "allowlist" => (pc = "spawn" <=> MatchesAllowlist)
     /\ askFallback \notin {"full", "allowlist"} => pc = "failed"

\* the patterns of an agent's allowlist in the approvals file
Patterns(d, key) ==
  LET list == loadExecApprovals(d).agents[key].allowlist
  IN {list[i].pattern : i \in 1..Len(list)}

\* the command matches the allowlist a later call of the agent resolves
MatchesLater(d, aid, res) ==
  LET later == resolveExecApprovals(ensureExecApprovals(d), aid, GatewayOverrides)
      match == matchAllowlist(later.allowlist, res)
  IN match # Null /\ match # Thrown

\* C6: allow-once permits the call and leaves every allowlist of the file
\* with the patterns it had; allow-always permits the call and leaves the
\* agent's allowlist with the resolved path (the raw executable when
\* unresolved) of the command, so that the command matches on a later call.
C6_AllowAlwaysPersists ==
  [][(pc = "approval" /\ gate'.name = "approval") =>
       /\ gate'.decision = "allow-once" =>
            /\ pc' = "spawn"
            /\ \A key \in AgentKeys : Patterns(disk', key) = Patterns(disk, key)
       /\ (gate'.decision = "allow-always" /\ resolution # Null) =>
            /\ pc' = "spawn"
            /\ CoalesceText(resolution.resolvedPath, resolution.rawExecutable)
                 \in Patterns(disk', AgentKey(agentId))
            /\ MatchesLater(disk', agentId, resolution)]_vars

\* C7: a call that requests elevated while the policy is missing, not enabled
\* or not allowed fails with 'elevated is not available' naming the failing
\* gate, before the host is chosen, before any read or write of the approvals
\* file and before any approval request; it does not reach the spawn.
C7_ElevatedUnavailableFailsFirst ==
  (gate.name = "elevated" /\ elevatedRequested
     /\ (\/ gate.elevatedDefaults = Null
         \/ ~gate.elevatedDefaults.enabled
         \/ ~gate.elevatedDefaults.allowed)) =>
     /\ pc = "failed"
     /\ error = IF gate.elevatedDefaults = Null \/ ~gate.elevatedDefaults.enabled
                THEN ErrElevatedEnabled ELSE ErrElevatedAllowFrom
     /\ host = None
     /\ security = None
     /\ approvals = Null
     /\ fileReads = 0
     /\ fileWrites = 0
     /\ approvalRequests = 0

\* elevated asked of a policy that is enabled but does not allow the provider
C7_Witness ==
  /\ gate.name = "elevated"
  /\ gate.paramsElevated = "true"
  /\ gate.elevatedDefaults # Null
  /\ gate.elevatedDefaults.enabled
  /\ ~gate.elevatedDefaults.allowed
  /\ pc = "failed"
  /\ error = ErrElevatedAllowFrom

\* the call passed the elevated gate with elevated granted
ElevatedGranted == elevatedRequested /\ gate.name \notin {"none", "command", "elevated"}

\* C8: a call with elevated granted runs on host=gateway with security full
\* and is never rejected for the host, for an allowlist miss or for
\* security=deny, whatever the approvals file holds.
C8_ElevatedBypassesAllowlist ==
  ElevatedGranted =>
     /\ host = "gateway"
     /\ security \in {None, "full"}
     /\ error \notin {ErrHostNotAllowed, ErrAllowlistMiss, ErrGatewayDeny}

\* C9: a call without elevated whose requested host is a valid host other
\* than the configured one fails with 'exec host not allowed' and goes no
\* further; with the configured host or no valid host requested it passes;
\* an elevated call passes whatever host is requested, onto host=gateway.
C9_HostGate ==
  gate.name = "host" =>
     IF elevatedRequested
     THEN pc = "security" /\ host = "gateway" /\ error = None
     ELSE IF gate.requestedHost # None /\ gate.requestedHost # gate.configuredHost
     THEN /\ pc = "failed"
          /\ error = ErrHostNotAllowed
          /\ security = None
          /\ fileReads = 0
          /\ approvalRequests = 0
     ELSE pc = "security" /\ host = gate.configuredHost /\ error = None

\* a valid host that is not the configured one was requested without elevated
C9_Witness ==
  /\ gate.name = "host"
  /\ ~elevatedRequested
  /\ gate.requestedHost = "gateway"
  /\ gate.configuredHost = "sandbox"
  /\ pc = "failed"
  /\ error = ErrHostNotAllowed

\* the orders of the claim
SecurityRank ==
  [a \in ExecSecurities |->
     CASE a = "deny" -> 0 [] a = "allowlist" -> 1 [] a = "full" -> 2]

AskRank ==
  [a \in ExecAsks |-> CASE a = "off" -> 0 [] a = "on-miss" -> 1 [] a = "always" -> 2]

\* C10: for a call without elevated the security is the lower of the
\* configured and the requested one, for every call the ask is the higher of
\* the configured and the requested one, and on host=gateway the effective
\* security is never above, the effective ask never below, those of the call.
C10_RequestsOnlyTighten ==
  /\ (gate.name = "security" /\ ~elevatedRequested) =>
       /\ SecurityRank[security] <= SecurityRank[gate.configuredSecurity]
       /\ security =
            IF /\ gate.requestedSecurity # None
               /\ SecurityRank[gate.requestedSecurity]
                    < SecurityRank[gate.configuredSecurity]
            THEN gate.requestedSecurity
            ELSE gate.configuredSecurity
  /\ gate.name = "ask" =>
       /\ AskRank[ask] >= AskRank[gate.configuredAsk]
       /\ ask =
            IF /\ gate.requestedAsk # None
               /\ AskRank[gate.requestedAsk] > AskRank[gate.configuredAsk]
            THEN gate.requestedAsk
            ELSE gate.configuredAsk
  /\ (host = "gateway" /\ hostSecurity # None) =>
       /\ SecurityRank[hostSecurity] <= SecurityRank[security]
       /\ AskRank[hostAsk] >= AskRank[ask]

\* a request for security full under a configured allowlist stays allowlist
C10_Witness ==
  /\ gate.name = "security"
  /\ ~elevatedRequested
  /\ gate.configuredSecurity = "allowlist"
  /\ gate.requestedSecurity = "full"
  /\ security = "allowlist"

(***************************************************************************)
(* C11: the claim as written: on every host, an exec call whose effective  *)
(* security is deny never spawns a process and never invokes a node.  The  *)
(* effective security is the composed security on host sandbox and the     *)
(* host security (composed with the approvals file) on gateway and node.   *)
(***************************************************************************)
EffectiveSecurity ==
  IF host = "sandbox" THEN security ELSE hostSecurity

Ran == pc \in {"spawn", "invoked"}

C11_DenyNeverRunsOnAnyHost ==
  EffectiveSecurity = "deny" => ~Ran

(***************************************************************************)
(* C11 amended: on hosts gateway and node, an exec call whose effective    *)
(* security is deny fails with the host's "security=deny" error, having    *)
(* requested no approval, and a call that ran on gateway or node had an    *)
(* effective security of allowlist or full.                                *)
(***************************************************************************)
C11_DenyFailsOnGatewayAndNode ==
  /\ (host \in {"gateway", "node"} /\ hostSecurity = "deny")
       => /\ pc = "failed"
          /\ error = (IF host = "gateway" THEN ErrGatewayDeny ELSE ErrNodeDeny)
          /\ approvalRequests = 0
  /\ (host \in {"gateway", "node"} /\ Ran) => hostSecurity \in {"allowlist", "full"}
  /\ (host \in {"gateway", "node"} /\ hostSecurity # None /\ security = "deny")
       => hostSecurity = "deny"

\* the approvals file alone denies a node call whose composed security is wider
C11_Witness ==
  /\ host = "node"
  /\ security # "deny"
  /\ hostSecurity = "deny"
  /\ pc = "failed"
  /\ error = ErrNodeDeny

(***************************************************************************)
(* The exported functions of exec-approvals.ts, called one at a time.      *)
(* `call` holds the function and its inputs; the function's action stores  *)
(* what it returned (or threw) in `call` and what it saved in `disk`.      *)
(***************************************************************************)
libUnchanged == <<pc, calls, gate, elevatedRequested, host, security, ask, agentId, command,
                  approvals, hostSecurity, hostAsk, askFallback, resolution, allowlistMatch,
                  approvedByAsk, error, fileReads, fileWrites, approvalRequests,
                  session, settled, outcome, yielded, timedOut, yieldTimer, timeoutTimer,
                  timeoutFinalizeTimer, signal, kills, child, errorEmitted, systemEvents,
                  heartbeatWakes, hubVars>>

\* minSecurity and maxAsk over three operands, each way round
PolicyCalls ==
  [fn : {"minSecurity"}, a : ExecSecurities, b : ExecSecurities, c : ExecSecurities,
   done : {FALSE}]
  \cup [fn : {"maxAsk"}, a : ExecAsks, b : ExecAsks, c : ExecAsks, done : {FALSE}]

PolicyResult(f(_, _), in) ==
  [fn |-> in.fn, a |-> in.a, b |-> in.b, c |-> in.c, done |-> TRUE,
   ab |-> f(in.a, in.b), ba |-> f(in.b, in.a), aa |-> f(in.a, in.a),
   ab_c |-> f(f(in.a, in.b), in.c), a_bc |-> f(in.a, f(in.b, in.c))]

CallMinSecurity ==
  /\ call.fn = "minSecurity"
  /\ ~call.done
  /\ call' = PolicyResult(minSecurity, call)
  /\ UNCHANGED <<libUnchanged, disk>>

CallMaxAsk ==
  /\ call.fn = "maxAsk"
  /\ ~call.done
  /\ call' = PolicyResult(maxAsk, call)
  /\ UNCHANGED <<libUnchanged, disk>>

\* the longest allowlist an input file holds under one key
MaxEntries == 2

PatBinStar == <<"/", "b", "/", "*">>

\* an entry never used and an entry that carries a use
LibEntries ==
  {Entry(PatRgName),
   [pattern |-> PatBinStar, lastUsedAt |-> Now,
    lastUsedCommand |-> CmdGpp, lastResolvedPath |-> <<"/", "b", "/", "g", "+", "+">>]}

SeqsUpTo(S, n) == UNION {[1..k -> S] : k \in 0..n}

\* files with an allowlist under the wildcard key and under agent main
AllowlistDisks ==
  {Missing} \cup
  {OnDisk([EmptyFile EXCEPT !.agents["*"].allowlist = w, !.agents["main"].allowlist = a]) :
     w \in SeqsUpTo(LibEntries, MaxEntries), a \in SeqsUpTo(LibEntries, MaxEntries)}

\* agentId of resolveExecApprovals: omitted, an agent, the wildcard key itself
LibAgentIds == {None, "main", "*"}

ResolveInputs ==
  {[disk |-> d,
    call |-> [fn |-> "resolveExecApprovals", agentId |-> aid, overrides |-> NoScalars,
              done |-> FALSE]] :
     d \in AllowlistDisks, aid \in LibAgentIds}

\* the values a scalar of the file is given: omitted, valid ones, one that is
\* not of the enumeration (the file is JSON that people edit)
ScalarNames == {"security", "ask", "askFallback", "autoAllowSkills"}

FileScalarChoices(name) ==
  CASE name = "security" -> {None, "full", "root"}
    [] name = "ask" -> {None, "always", "never"}
    [] name = "askFallback" -> {None, "allowlist", "root"}
    [] name = "autoAllowSkills" -> {NoFlag, <<TRUE>>, <<FALSE>>}

\* what a caller passes as an override is typed: omitted or valid
OverrideChoices(name) ==
  CASE name = "security" -> {None, "allowlist"}
    [] name = "ask" -> {None, "off"}
    [] name = "askFallback" -> {None, "full"}
    [] name = "autoAllowSkills" -> {NoFlag, <<TRUE>>}

\* files that give one scalar under agent main, under "*" and in defaults
ScalarInputsOf(name) ==
  {[disk |-> OnDisk([EmptyFile EXCEPT !.agents["main"][name] = a,
                                      !.agents["*"][name] = w,
                                      !.defaults[name] = d]),
    call |-> [fn |-> "resolveExecApprovals", agentId |-> "main",
              overrides |-> [NoScalars EXCEPT ![name] = o], done |-> FALSE]] :
     a \in FileScalarChoices(name), w \in FileScalarChoices(name),
     d \in FileScalarChoices(name), o \in OverrideChoices(name)}

ScalarInputs == UNION {ScalarInputsOf(name) : name \in ScalarNames}

\* patterns of allowlist entries: a name in capitals, globs with "*" and
\* "**", names and paths with "+" and ".", a name with "~", a blank
PatAnyDepth == <<"/", "*", "*">>
PatRootStar == <<"/", "*">>
PatGppName == <<"g", "+", "+">>
PatDotStar == <<"/", "b", ".", "*">>
PatBackup == <<"*", "~">>
PatDirName == <<"b">>
PatRelative == <<"b", "/", "r", "g">>
PatBlank == <<" ">>

MatchPatterns ==
  {PatRgName, PatBinStar, PatAnyDepth, PatRootStar, PatGppName, PatDotStar, PatBackup,
   PatDirName, PatRelative, PatBlank}

\* resolutions: none, rg and g++ found in /b, a relative path that was not
\* resolved (doctor.ts 1189-1193), a name in capitals found nowhere, a
\* backup file x~ found in /b
ResRg ==
  [rawExecutable |-> <<"r", "g">>, resolvedPath |-> <<"/", "b", "/", "r", "g">>,
   executableName |-> <<"r", "g">>]

ResGpp ==
  [rawExecutable |-> <<"g", "+", "+">>, resolvedPath |-> <<"/", "b", "/", "g", "+", "+">>,
   executableName |-> <<"g", "+", "+">>]

ResRelative ==
  [rawExecutable |-> <<"b", "/", "r", "g">>, resolvedPath |-> NoText,
   executableName |-> <<"r", "g">>]

ResCapitals ==
  [rawExecutable |-> <<"R", "G">>, resolvedPath |-> NoText, executableName |-> <<"R", "G">>]

ResBackup ==
  [rawExecutable |-> <<"x", "~">>, resolvedPath |-> <<"/", "b", "/", "x", "~">>,
   executableName |-> <<"x", "~">>]

MatchResolutions == {Null, ResRg, ResGpp, ResRelative, ResCapitals, ResBackup}

MatchInputs ==
  {[disk |-> Missing,
    call |-> [fn |-> "matchAllowlist", entries |-> es, resolution |-> r, done |-> FALSE]] :
     es \in SeqsUpTo({Entry(p) : p \in MatchPatterns}, MaxEntries),
     r \in MatchResolutions}

\* the resolution with its three texts in lower case
LowerResolution(r) ==
  IF r = Null THEN Null
  ELSE [rawExecutable |-> toLowerCase(r.rawExecutable),
        resolvedPath |-> IF r.resolvedPath = NoText THEN NoText
                         ELSE toLowerCase(r.resolvedPath),
        executableName |-> toLowerCase(r.executableName)]

\* matchAllowlist, evaluated twice, and once more on the lower-case resolution
CallMatchAllowlist ==
  /\ call.fn = "matchAllowlist"
  /\ ~call.done
  /\ call' = [call EXCEPT !.done = TRUE] @@
                [result |-> matchAllowlist(call.entries, call.resolution),
                 again |-> matchAllowlist(call.entries, call.resolution),
                 lower |-> matchAllowlist(call.entries, LowerResolution(call.resolution))]
  /\ UNCHANGED <<libUnchanged, disk>>

\* how many times addAllowlistEntry is called on one file
MaxAdds == 3

PatRgPadded == <<" ", "R", "G", " ">>

AddPatterns == {PatRgName, PatRgPadded, PatBinStar, PatBlank, <<>>}

\* the file a caller holds after resolveExecApprovals, as saved on disk
AddFiles ==
  {[ensureExecApprovals(Missing) EXCEPT !.agents["main"].allowlist = l] :
     l \in {<<>>, <<Entry(PatRgName)>>}}

AddInputs ==
  {[disk |-> OnDisk(f),
    call |-> [fn |-> "addAllowlistEntry", file |-> f, agentId |-> aid, pattern |-> NoText,
              adds |-> 0]] :
     f \in AddFiles, aid \in AgentIds}

\* addAllowlistEntry on the file object the caller holds
CallAddAllowlistEntry ==
  /\ call.fn = "addAllowlistEntry"
  /\ call.adds < MaxAdds
  /\ \E pattern \in AddPatterns :
       LET file == addAllowlistEntry(call.file, call.agentId, pattern)
       IN /\ call' = [call EXCEPT !.file = file, !.pattern = pattern, !.adds = @ + 1]
          /\ disk' = IF addAllowlistEntrySaves(call.file, call.agentId, pattern)
                     THEN OnDisk(file)
                     ELSE disk
  /\ UNCHANGED libUnchanged

\* resolveExecApprovals: ensures (and saves) the file, then resolves
CallResolveExecApprovals ==
  /\ call.fn = "resolveExecApprovals"
  /\ ~call.done
  /\ LET file == ensureExecApprovals(disk)
     IN /\ disk' = OnDisk(file)
        /\ call' = [call EXCEPT !.done = TRUE] @@
                      [result |-> resolveExecApprovals(file, call.agentId, call.overrides)]
  /\ UNCHANGED libUnchanged

LibInputs ==
  {[disk |-> Missing, call |-> c] : c \in PolicyCalls}
  \cup ResolveInputs
  \cup ScalarInputs
  \cup MatchInputs
  \cup AddInputs

LibInit ==
  /\ GateInit
  /\ LifeIdle
  /\ HubIdle
  /\ \E in \in LibInputs :
       /\ disk = in.disk
       /\ call = in.call

LibNext ==
  \/ CallMinSecurity
  \/ CallMaxAsk
  \/ CallResolveExecApprovals
  \/ CallMatchAllowlist
  \/ CallAddAllowlistEntry

LibSpec == LibInit /\ [][LibNext]_vars

(***************************************************************************)
(* C12: minSecurity is commutative, associative and idempotent and deny    *)
(* absorbs; maxAsk is commutative, associative and idempotent and always   *)
(* absorbs.                                                                *)
(***************************************************************************)
C12_PolicyAlgebra ==
  (call.fn \in {"minSecurity", "maxAsk"} /\ call.done) =>
    /\ call.ab = call.ba
    /\ call.ab_c = call.a_bc
    /\ call.aa = call.a
    /\ (call.fn = "minSecurity" /\ "deny" \in {call.a, call.b}) => call.ab = "deny"
    /\ (call.fn = "maxAsk" /\ "always" \in {call.a, call.b}) => call.ab = "always"

\* doctor.ts 1234: minSecurity("deny", "full") is deny
C12_Witness ==
  /\ call.fn = "minSecurity"
  /\ call.done
  /\ call.a = "deny"
  /\ call.b = "full"
  /\ call.ab = "deny"

(***************************************************************************)
(* C13: for every approvals file and agent id, the allowlist that          *)
(* resolveExecApprovals returns is the entries the file holds under "*"    *)
(* followed by the entries it holds under the agent's key, whole and in    *)
(* file order, none dropped and none added.                                *)
(***************************************************************************)
FileEntries(d, key) ==
  IF d.exists THEN d.file.agents[key].allowlist ELSE <<>>

C13_WildcardThenAgent ==
  [][(call.fn = "resolveExecApprovals" /\ ~call.done /\ call'.done) =>
       call'.result.allowlist =
         FileEntries(disk, "*") \o FileEntries(disk, AgentKey(call.agentId))]_vars

\* doctor.ts 1245-1277: a wildcard entry and an entry of main, resolved for main
C13_Witness ==
  /\ call.fn = "resolveExecApprovals"
  /\ call.done
  /\ call.agentId = "main"
  /\ Len(call.result.allowlist) = 2
  /\ call.result.allowlist[1].pattern = PatBinStar
  /\ call.result.allowlist[2].pattern = PatRgName
  /\ disk.file.agents["*"].allowlist = <<call.result.allowlist[1]>>
  /\ disk.file.agents["main"].allowlist = <<call.result.allowlist[2]>>

(***************************************************************************)
(* C14: each scalar resolved for an agent (security, ask, askFallback,     *)
(* autoAllowSkills) is the first defined valid value in the chain          *)
(* agents[agentId], agents["*"], file.defaults, the caller's overrides,    *)
(* the hardcoded default (deny, on-miss, deny, false).                     *)
(***************************************************************************)
HardcodedDefaults ==
  [security |-> "deny", ask |-> "on-miss", askFallback |-> "deny",
   autoAllowSkills |-> <<FALSE>>]

ValidScalar(name, value) ==
  CASE name = "security" -> value \in ExecSecurities
    [] name = "ask" -> value \in ExecAsks
    [] name = "askFallback" -> value \in ExecSecurities
    [] name = "autoAllowSkills" -> value # NoFlag

RECURSIVE FirstValid(_, _)
FirstValid(name, chain) ==
  IF Len(chain) = 1 \/ ValidScalar(name, Head(chain))
  THEN Head(chain)
  ELSE FirstValid(name, Tail(chain))

ScalarChain(d, aid, overrides, name) ==
  LET file == loadExecApprovals(d)
  IN <<file.agents[AgentKey(aid)][name], file.agents["*"][name], file.defaults[name],
       overrides[name], HardcodedDefaults[name]>>

ResolvedScalar(resolved, name) ==
  IF name = "autoAllowSkills" THEN <<resolved.agent[name]>> ELSE resolved.agent[name]

C14_FirstDefinedValid ==
  [][(call.fn = "resolveExecApprovals" /\ ~call.done /\ call'.done) =>
       \A name \in ScalarNames :
         ResolvedScalar(call'.result, name) =
           FirstValid(name, ScalarChain(disk, call.agentId, call.overrides, name))]_vars

(***************************************************************************)
(* C15: matchAllowlist returns the earliest entry, in list order, whose    *)
(* pattern matches the resolution, and null when no entry matches or the   *)
(* list or the resolution is empty.                                        *)
(***************************************************************************)
\* the text a pattern is matched against: the path for a pattern that holds
\* "/", a backslash or "~", the executable name for any other
MatchTarget(pattern, res) ==
  IF \E c \in {"/", "\\", "~"} : includes(trim(pattern), c)
  THEN CoalesceText(res.resolvedPath, res.rawExecutable)
  ELSE res.executableName

EntryMatches(entry, res) ==
  /\ MatchTarget(entry.pattern, res) # <<>>
  /\ matchesPattern(trim(entry.pattern), MatchTarget(entry.pattern, res))

EarliestMatch(entries, res) ==
  IF res = Null \/ ~\E i \in 1..Len(entries) : EntryMatches(entries[i], res)
  THEN Null
  ELSE entries[CHOOSE i \in 1..Len(entries) :
                 /\ EntryMatches(entries[i], res)
                 /\ \A j \in 1..(i - 1) : ~EntryMatches(entries[j], res)]

C15_EarliestMatchWins ==
  (call.fn = "matchAllowlist" /\ call.done) =>
    call.result = EarliestMatch(call.entries, call.resolution)

(***************************************************************************)
(* C16: for every pattern P and resolution R, matchAllowlist([P], R)       *)
(* never lets "*" match across a "/" (the only wildcard of a pattern whose *)
(* stars are single is "*", so a target it matches has as many "/" as the *)
(* pattern), lets a trailing "**" match across "/" (a literal prefix       *)
(* followed by "**" matches every target with that prefix), ignores case,  *)
(* and gives the same result when evaluated twice.                         *)
(***************************************************************************)
RECURSIVE SlashCount(_)
SlashCount(s) ==
  IF s = <<>> THEN 0
  ELSE (IF Head(s) = "/" THEN 1 ELSE 0) + SlashCount(Tail(s))

\* every wildcard of the pattern is a single "*", and "~" expands nothing
SingleStars(pattern) ==
  /\ ~includes(pattern, "?")
  /\ ~\E i \in 1..(Len(pattern) - 1) : pattern[i] = "*" /\ pattern[i + 1] = "*"
  /\ ~startsWith(pattern, <<"~">>)

\* a prefix without wildcards followed by "**"
TrailingDoubleStar(pattern) ==
  /\ Len(pattern) >= 3
  /\ SubSeq(pattern, Len(pattern) - 1, Len(pattern)) = <<"*", "*">>
  /\ ~includes(SubSeq(pattern, 1, Len(pattern) - 2), "*")
  /\ ~includes(pattern, "?")
  /\ ~startsWith(pattern, <<"~">>)

SeparatorTarget(pattern, res) ==
  IF \E c \in {"/", "\\"} : includes(trim(pattern), c)
  THEN CoalesceText(res.resolvedPath, res.rawExecutable)
  ELSE res.executableName

\* what matching the pattern against the target gives
MatchedAgainst(entry, target) ==
  IF trim(entry.pattern) = <<>> \/ target = <<>> THEN Null
  ELSE IF matchesPatternThrows(trim(entry.pattern)) THEN Thrown
  ELSE IF matchesPattern(trim(entry.pattern), target) THEN entry
  ELSE Null

SingleMatchCall ==
  call.fn = "matchAllowlist" /\ call.done /\ Len(call.entries) = 1 /\ call.resolution # Null

C17_SeparatorChoosesTarget ==
  SingleMatchCall =>
    call.result =
      MatchedAgainst(call.entries[1],
                     SeparatorTarget(call.entries[1].pattern, call.resolution))

(***************************************************************************)
(* C17 amended: a pattern that contains a path separator or a "~" is       *)
(* matched against the resolved path (the raw executable when no path was  *)
(* resolved), and a pattern with neither against the executable basename   *)
(* only, never against the directory part of the path.                     *)
(***************************************************************************)
C17_PathMarkChoosesTarget ==
  SingleMatchCall =>
    call.result =
      MatchedAgainst(call.entries[1], MatchTarget(call.entries[1].pattern, call.resolution))

\* doctor.ts 1188-1197: no resolved path, the pattern matches the raw executable
C17_Witness ==
  /\ SingleMatchCall
  /\ call.entries[1].pattern = PatRelative
  /\ call.resolution = ResRelative
  /\ call.result = call.entries[1]

(***************************************************************************)
(* C18: adding a pattern that, trimmed, is already in the agent's          *)
(* allowlist changes neither the allowlist nor the approvals file; an      *)
(* empty pattern is never added; so no pattern comes to appear twice,      *)
(* however many times it is added.                                         *)
(***************************************************************************)
HeldPatterns(file, aid) ==
  LET allowlist == file.agents[AgentKey(aid)].allowlist
  IN [i \in 1..Len(allowlist) |-> allowlist[i].pattern]

Occurrences(seq, x) == Cardinality({i \in 1..Len(seq) : seq[i] = x})

C18_AddIsIdempotent ==
  /\ [](call.fn = "addAllowlistEntry" =>
          \A p \in AddPatterns :
            /\ Occurrences(HeldPatterns(call.file, call.agentId), p) <= 1
            /\ trim(p) = <<>> => Occurrences(HeldPatterns(call.file, call.agentId), p) = 0)
  /\ [][(call.fn = "addAllowlistEntry" /\ call'.adds = call.adds + 1
          /\ (trim(call'.pattern) = <<>>
                \/ Occurrences(HeldPatterns(call.file, call.agentId), trim(call'.pattern)) > 0))
         => (call'.file = call.file /\ disk' = disk)]_vars

\* RG is added, then " RG " is added and changes nothing
C18_Witness ==
  /\ call.fn = "addAllowlistEntry"
  /\ call.adds >= 2
  /\ call.pattern = PatRgPadded
  /\ HeldPatterns(call.file, call.agentId) = <<PatRgName>>
  /\ disk = OnDisk(call.file)

(***************************************************************************)
(* C19: after a gateway exec is permitted through an allowlist match on    *)
(* entry E, the entry E stored in the approvals file, under the agent's    *)
(* key or under "*", carries lastUsedCommand equal to the command and      *)
(* lastResolvedPath equal to the resolved path, and the step changes the   *)
(* pattern of no entry.                                                    *)
(***************************************************************************)
\* the stored entries in the order of the resolved allowlist
StoredAllowlist(d, aid) ==
  FileEntries(d, "*") \o FileEntries(d, AgentKey(aid))

PermittedThroughMatch ==
  /\ host = "gateway"
  /\ pc = "spawn"
  /\ allowlistMatch # Null

IsPrefix(s, t) == Len(s) <= Len(t) /\ SubSeq(t, 1, Len(s)) = s

C19_MatchedEntryCarriesUse ==
  /\ [](PermittedThroughMatch =>
          LET stored == StoredAllowlist(disk, agentId)
          IN \E i \in 1..Len(stored) :
               /\ stored[i].pattern = allowlistMatch.pattern
               /\ \A j \in 1..(i - 1) : stored[j].pattern # allowlistMatch.pattern
               /\ stored[i].lastUsedCommand = command
               /\ stored[i].lastResolvedPath = resolution.resolvedPath)
  /\ [][(host = "gateway" /\ pc' = "spawn" /\ pc # "spawn") =>
          \A key \in AgentKeys :
            IsPrefix([i \in 1..Len(FileEntries(disk, key)) |-> FileEntries(disk, key)[i].pattern],
                     [i \in 1..Len(FileEntries(disk', key)) |->
                        FileEntries(disk', key)[i].pattern])]_vars

(***************************************************************************)
(* C20 as written: the approvals file is written only as the result of an  *)
(* approval decision; a step of an exec call that is not an approval       *)
(* decision leaves the file as it was.                                     *)
(***************************************************************************)
ApprovalDecisionStep ==
  /\ pc = "approval"
  /\ gate'.name = "approval"
  /\ gate'.decision \in {"allow-once", "allow-always"}

C20_OnlyDecisionsWrite ==
  [][disk' # disk => ApprovalDecisionStep]_vars

(***************************************************************************)
(* C20 amended: the policy of the approvals file (its defaults, the        *)
(* scalars of its agents and the patterns of their allowlists) is changed  *)
(* only as the result of an approval decision; a call that involves no     *)
(* approval decision leaves the policy unchanged, though it writes the     *)
(* file: resolveExecApprovals saves it with the socket path and token      *)
(* filled in, and a permitted allowlist match saves the entry's last use.  *)
(***************************************************************************)
FilePolicy(d) ==
  LET file == loadExecApprovals(d)
  IN [defaults |-> file.defaults,
      agents |-> [k \in AgentKeys |->
                    [security |-> file.agents[k].security,
                     ask |-> file.agents[k].ask,
                     askFallback |-> file.agents[k].askFallback,
                     autoAllowSkills |-> file.agents[k].autoAllowSkills,
                     patterns |-> [i \in 1..Len(file.agents[k].allowlist) |->
                                     file.agents[k].allowlist[i].pattern]]]]

\* the steps that save: the host's gate, which resolves the approvals and
\* may record a use, and the step that ends the wait for a decision
SavingStep == host \in {"gateway", "node"} /\ pc \in {"route", "approval"}

C20_OnlyDecisionsChangePolicy ==
  /\ [][FilePolicy(disk') # FilePolicy(disk) => ApprovalDecisionStep]_vars
  /\ [][disk' # disk => SavingStep]_vars

\* a gateway call with no approval request that wrote the file twice: the
\* save of resolveExecApprovals and the save of recordAllowlistUse
C20_Witness ==
  /\ host = "gateway"
  /\ pc = "spawn"
  /\ approvalRequests = 0
  /\ allowlistMatch # Null
  /\ fileWrites = 2
  /\ disk.file.agents["main"].allowlist[1].lastUsedCommand = command

(***************************************************************************)
(* C21: the step that ends an exec session (process close, spawn error or  *)
(* timeout finalization) enqueues one exit system event and wakes the      *)
(* heartbeat once if and only if notifyOnExit is true, the session had     *)
(* been backgrounded and its sessionKey is not empty; no other step        *)
(* enqueues or wakes; a session whose call settled before it was           *)
(* backgrounded has no exit notification.                                  *)
(***************************************************************************)
SessionEnds == session # Null /\ ~session.exited /\ session'.exited

WantsExitNotice ==
  /\ session.notifyOnExit
  /\ session.backgrounded
  /\ session.sessionKey # NoText
  /\ session.sessionKey # <<>>

C21_ExitNoticeIffBackgrounded ==
  /\ [][IF SessionEnds /\ WantsExitNotice
         THEN /\ Len(systemEvents') = Len(systemEvents) + 1
              /\ heartbeatWakes' = heartbeatWakes + 1
         ELSE /\ systemEvents' = systemEvents
              /\ heartbeatWakes' = heartbeatWakes]_vars
  /\ [](systemEvents # <<>> => (session.backgrounded /\ outcome = "running"))

\* a backgrounded session with a session key closed and was announced
C21_Witness ==
  /\ session # Null
  /\ session.exited
  /\ session.backgrounded
  /\ child = "closed"
  /\ Len(systemEvents) = 1
  /\ heartbeatWakes = 1

(***************************************************************************)
(* C22: for host=node the call fails, and sends no node.invoke, when no    *)
(* node is paired, when several nodes are available and none is requested  *)
(* or bound, when a requested node differs from the bound node, and when   *)
(* the selected node does not declare system.run; a node.invoke goes only  *)
(* to a listed node that declares system.run.                              *)
(***************************************************************************)
NodeFails(message) == pc = "failed" /\ error = message

Declares(nodes, id, name) ==
  \E i \in 1..Len(nodes) : nodes[i].nodeId = id /\ name \in nodes[i].commands

C22_NodeSelectionFailures ==
  /\ [](host = "node" /\ gate.name = "node" /\ hostSecurity # "deny"
          /\ gate.boundNode # <<>> /\ gate.requestedNode # <<>>
          /\ gate.boundNode # gate.requestedNode
        => NodeFails(ErrNodeNotAllowed))
  /\ [](host = "node" /\ gate.name = "nodes" /\ "nodes" \in DOMAIN gate =>
          /\ Len(gate.nodes) = 0 => NodeFails(ErrNoNode)
          /\ (Len(gate.nodes) > 1 /\ gate.nodeQuery = <<>>) => NodeFails(ErrNodeRequired)
          /\ (Len(gate.nodes) = 1 /\ gate.nodeQuery = <<>>
                /\ ~Declares(gate.nodes, gate.nodes[1].nodeId, "system.run"))
               => NodeFails(ErrNoSystemRun)
          /\ (gate.nodeQuery # <<>> /\ Len(gate.nodes) > 0
                /\ ~Declares(gate.nodes, gate.nodeQuery, "system.run"))
               => pc = "failed")
  /\ [](pc = "invoked" => "system.run" \in gate.commands)
  /\ [][pc' = "invoked" => (host = "node" /\ pc \in {"nodes", "approval"})]_vars

\* two nodes are paired and none is named
C22_Witness ==
  /\ host = "node"
  /\ gate.name = "nodes"
  /\ "nodes" \in DOMAIN gate
  /\ Len(gate.nodes) = 2
  /\ gate.nodeQuery = <<>>
  /\ NodeFails(ErrNodeRequired)

(***************************************************************************)
(* The gateway's node registry and invoke router: the node.invoke method   *)
(* that bash-tools.exec.ts calls at lines 544-560, as section 4.G of the   *)
(* specification and the gateway tests describe it.                        *)
(***************************************************************************)
ErrNodeCommandNotAllowed == "node command not allowed"
ErrNodeNotConnected == "node not connected"
ErrNodeDisconnected == "node-disconnected"

NodeCommandNames == {"system.run", "canvas.snapshot"}
IdempotencyKeys == {"allowlist-1", "allowlist-2"}

\* every variable of the exec tool, of the library calls and of the session
\* store
execVars == <<gateVars, session, settled, outcome, yielded, timedOut, yieldTimer,
              timeoutTimer, timeoutFinalizeTimer, signal, kills, child, errorEmitted,
              systemEvents, heartbeatWakes, call, storeVars>>

\* the per-platform command catalog: an ios node may take canvas.snapshot
\* and may not take system.run
resolveNodeCommandAllowlist(platform) ==
  IF platform = "ios" THEN {"canvas.snapshot"} ELSE {"canvas.snapshot", "system.run"}

\* what the hello of a node declares
HelloChoices ==
  {[connected |-> TRUE, platform |-> "ios", commands |-> {"system.run"}],
   [connected |-> TRUE, platform |-> "ios", commands |-> {"canvas.snapshot"}],
   [connected |-> TRUE, platform |-> "mac", commands |-> {"system.run"}]}

\* what node.invoke.result carries
InvokeResult(ok, payloadJSON, message) ==
  [ok |-> ok, payloadJSON |-> payloadJSON, error |-> message]

ResultChoices ==
  {InvokeResult(TRUE, "null", None), InvokeResult(FALSE, "null", "node failed")}

isNodeCommandAllowedWhenDeclared(cmd, node) ==
  cmd \in node.commands

isNodeCommandAllowed(cmd, node) ==
  cmd \in node.commands /\ cmd \in resolveNodeCommandAllowlist(node.platform)

\* the tickets held under (nodeId, idempotencyKey)
TicketForWhilePending(held, n, key) ==
  {t \in held : t.nodeId = n /\ t.idempotencyKey = key /\ t.state = "pending"}

TicketFor(held, n, key) ==
  {t \in held : t.nodeId = n /\ t.idempotencyKey = key}

Rpc(state, n, cmd, key, ticket, res) ==
  [state |-> state, nodeId |-> n, command |-> cmd, idempotencyKey |-> key,
   ticket |-> ticket, res |-> res]

\* every responder of the ticket gets the result
Resolve(rpcs, t, res) ==
  [c \in Operators |->
     IF c \in t.pendingResponders THEN [rpcs[c] EXCEPT !.state = "answered", !.res = res]
     ELSE rpcs[c]]

\* hello of a peer with role=node
NodeHello ==
  /\ \E n \in RegistryNodes, h \in HelloChoices :
       /\ ~registry[n].connected
       /\ registry' = [registry EXCEPT ![n] = h]
  /\ UNCHANGED <<tickets, forwarded, callers, nextTicketId, streamVars, queueVars,
                 execVars>>

\* node.invoke(nodeId, command, params, idempotencyKey)
NodeInvokeRpc ==
  /\ \E c \in Operators, n \in RegistryNodes, cmd \in NodeCommandNames,
        key \in IdempotencyKeys :
       LET held == TicketFor(tickets, n, key)
           t == CHOOSE t \in held : TRUE
           failed(message) == Rpc("answered", n, cmd, key, 0,
                                  InvokeResult(FALSE, "null", message))
       IN /\ callers[c] = NoRpc
          /\ IF ~registry[n].connected
             THEN /\ callers' = [callers EXCEPT ![c] = failed(ErrNodeNotConnected)]
                  /\ UNCHANGED <<tickets, forwarded, nextTicketId>>
             ELSE IF ~isNodeCommandAllowed(cmd, registry[n])
             THEN /\ callers' = [callers EXCEPT ![c] = failed(ErrNodeCommandNotAllowed)]
                  /\ UNCHANGED <<tickets, forwarded, nextTicketId>>
             ELSE IF held # {} /\ t.state = "pending"
             THEN /\ callers' = [callers EXCEPT
                                   ![c] = Rpc("waiting", n, cmd, key, t.id, t.result)]
                  /\ tickets' = (tickets \ {t}) \cup
                                {[t EXCEPT !.pendingResponders = @ \cup {c}]}
                  /\ UNCHANGED <<forwarded, nextTicketId>>
             ELSE IF held # {}
             THEN /\ callers' = [callers EXCEPT
                                   ![c] = Rpc("answered", n, cmd, key, t.id, t.result)]
                  /\ UNCHANGED <<tickets, forwarded, nextTicketId>>
             ELSE /\ callers' = [callers EXCEPT
                                   ![c] = Rpc("waiting", n, cmd, key, nextTicketId,
                                              InvokeResult(FALSE, "null", None))]
                  /\ tickets' = tickets \cup
                                {[id |-> nextTicketId, nodeId |-> n, command |-> cmd,
                                  idempotencyKey |-> key, state |-> "pending",
                                  result |-> InvokeResult(FALSE, "null", None),
                                  pendingResponders |-> {c}]}
                  /\ forwarded' = Append(forwarded,
                                         [id |-> nextTicketId, nodeId |-> n,
                                          command |-> cmd])
                  /\ nextTicketId' = nextTicketId + 1
  /\ UNCHANGED <<registry, streamVars, queueVars, execVars>>

\* node.invoke.result { id, nodeId, ok, payloadJSON | null, error? }
NodeInvokeResult ==
  /\ \E t \in tickets, res \in ResultChoices :
       /\ t.state = "pending"
       /\ registry[t.nodeId].connected
       /\ tickets' = (tickets \ {t}) \cup
                     {[t EXCEPT !.state = "resolved", !.result = res,
                                !.pendingResponders = {}]}
       /\ callers' = Resolve(callers, t, res)
  /\ UNCHANGED <<registry, forwarded, nextTicketId, streamVars, queueVars, execVars>>

\* the socket of a node closes: its in-flight tickets fail
NodeDisconnect ==
  /\ \E n \in RegistryNodes :
       LET res == InvokeResult(FALSE, "null", ErrNodeDisconnected)
           inFlight == {t \in tickets : t.nodeId = n /\ t.state = "pending"}
       IN /\ registry[n].connected
          /\ registry' = [registry EXCEPT ![n] = NotConnected]
          /\ tickets' = (tickets \ inFlight) \cup
                        {[t EXCEPT !.state = "resolved", !.result = res,
                                   !.pendingResponders = {}] : t \in inFlight}
          /\ callers' = [c \in Operators |->
                           IF \E t \in inFlight : c \in t.pendingResponders
                           THEN [callers[c] EXCEPT !.state = "answered", !.res = res]
                           ELSE callers[c]]
  /\ UNCHANGED <<forwarded, nextTicketId, streamVars, queueVars, execVars>>

\* the retention window of a resolved ticket ends
RetentionExpires ==
  /\ \E t \in tickets :
       /\ t.state = "resolved"
       /\ tickets' = tickets \ {t}
  /\ UNCHANGED <<registry, forwarded, callers, nextTicketId, streamVars, queueVars,
                 execVars>>

ExecIdle ==
  /\ GateInit
  /\ disk = Missing
  /\ LifeIdle
  /\ call = NoCall

HubInit == ExecIdle /\ HubIdle

RouterNext ==
  \/ NodeHello
  \/ NodeInvokeRpc
  \/ NodeInvokeResult
  \/ NodeDisconnect
  \/ RetentionExpires

RouterSpec == HubInit /\ [][RouterNext]_vars

RouterTypeOK == nextTicketId \in 1..(Cardinality(Operators) + 1)

(***************************************************************************)
(* The server-to-client event stream of the hub (specification 4.H) and    *)
(* the client's gap detection, whose seqGap push the transport mapping     *)
(* test feeds to mapPushToTransportEvent.                                  *)
(***************************************************************************)
MaxSeq == 4

EventFrame(seq) == [type |-> "event", seq |-> seq]
SnapshotFrame == [type |-> "push.snapshot"]
SeqGap(expected, received) ==
  [type |-> "seqGap", expected |-> expected, received |-> received]

Count(frames, type) == Cardinality({i \in 1..Len(frames) : frames[i].type = type})

\* the client compares the seq of an event with the one it expects
DetectsGapOfTwo(expected, received) ==
  received > expected + 1

DetectsGap(expected, received) ==
  received > expected

\* the hub sends an event: every outbound event takes the next seq
EmitEvent ==
  /\ nextSeq <= MaxSeq
  /\ wire' = Append(wire, EventFrame(nextSeq))
  /\ nextSeq' = nextSeq + 1
  /\ UNCHANGED <<expectedSeq, observed, routerVars, queueVars, execVars>>

\* an event frame is lost on its way to the client
DropEvent ==
  /\ \E i \in 1..Len(wire) :
       /\ wire[i].type = "event"
       /\ wire' = SubSeq(wire, 1, i - 1) \o SubSeq(wire, i + 1, Len(wire))
  /\ UNCHANGED <<nextSeq, expectedSeq, observed, routerVars, queueVars, execVars>>

\* the client takes the next frame of its socket
ClientReceives ==
  /\ wire # <<>>
  /\ LET frame == Head(wire)
     IN IF frame.type = "event"
        THEN /\ observed' = IF DetectsGap(expectedSeq, frame.seq)
                            THEN observed \o <<SeqGap(expectedSeq, frame.seq), frame>>
                            ELSE Append(observed, frame)
             /\ expectedSeq' = frame.seq + 1
        ELSE /\ observed' = Append(observed, frame)
             /\ UNCHANGED expectedSeq
  /\ wire' = Tail(wire)
  /\ UNCHANGED <<nextSeq, routerVars, queueVars, execVars>>

\* the hub answers a seqGap by resending the snapshot
ResendSnapshot ==
  /\ Count(observed, "seqGap") >
       Count(observed, "push.snapshot") + Count(wire, "push.snapshot")
  /\ wire' = Append(wire, SnapshotFrame)
  /\ UNCHANGED <<nextSeq, expectedSeq, observed, routerVars, queueVars, execVars>>

StreamNext ==
  \/ EmitEvent
  \/ DropEvent
  \/ ClientReceives
  \/ ResendSnapshot

StreamSpec == HubInit /\ [][StreamNext]_vars

(***************************************************************************)
(* The session orchestrator (specification 4.I): one worker per session    *)
(* key in front of a bounded FIFO, the queue whose settings and depth      *)
(* session-status-tool.ts reads at lines 316-322.                          *)
(***************************************************************************)
MaxMessages == 4
QueueCap == 2

DropPolicies == {"oldest", "newest", "reject"}

\* the queue after a submission under cap and dropPolicy
Enqueue(queue, message, cap, dropPolicy) ==
  IF Len(queue) < cap THEN Append(queue, message)
  ELSE IF dropPolicy = "oldest" THEN Append(Tail(queue), message)
  ELSE queue

\* a turn of the session is in flight
BusyNever(running) ==
  FALSE

Busy(running) ==
  running # {}

\* an inbound message for a session key is appended to its queue
Submit ==
  /\ submitted < MaxMessages
  /\ \E k \in SessionKeys, dropPolicy \in DropPolicies :
       queues' = [queues EXCEPT ![k] = Enqueue(@, submitted + 1, QueueCap, dropPolicy)]
  /\ submitted' = submitted + 1
  /\ UNCHANGED <<turns, routerVars, streamVars, execVars>>

\* the worker of a session key fires a turn for the messages that came
\* back to back
StartTurn ==
  /\ \E k \in SessionKeys :
       /\ queues[k] # <<>>
       /\ ~Busy(turns[k])
       /\ \E n \in 1..Len(queues[k]) :
            /\ turns' = [turns EXCEPT
                           ![k] = @ \cup {[runId |-> Head(queues[k]),
                                           messages |-> SubSeq(queues[k], 1, n)]}]
            /\ queues' = [queues EXCEPT ![k] = SubSeq(@, n + 1, Len(@))]
  /\ UNCHANGED <<submitted, routerVars, streamVars, execVars>>

\* the final assistant message of a turn
TurnFinal ==
  /\ \E k \in SessionKeys :
       \E run \in turns[k] : turns' = [turns EXCEPT ![k] = @ \ {run}]
  /\ UNCHANGED <<queues, submitted, routerVars, streamVars, execVars>>

QueueNext ==
  \/ Submit
  \/ StartTurn
  \/ TurnFinal

QueueSpec == HubInit /\ [][QueueNext]_vars

(***************************************************************************)
(* The tool policy layers (specification 4.J, docs/multi-agent-sandbox-    *)
(* tools.md 160-168, docs/install/development-channels.md 325-329).  A     *)
(* policy is [allow, deny], two sets of tool names, or Null when not set.  *)
(***************************************************************************)
ToolNames == {"read", "bash", "browser"}

Policy(allow, deny) == [allow |-> allow, deny |-> deny]

PolicyChoices ==
  {Null, Policy({}, {"browser"}), Policy({"read", "bash"}, {}),
   Policy({"bash", "browser"}, {"bash"}), Policy({"browser"}, {})}

\* deny wins over allow; an empty allow leaves every tool but the denied ones
filterToolsByPolicyGranting(tools, policy) ==
  IF policy = Null THEN tools
  ELSE (tools \cup policy.allow) \ policy.deny

filterToolsByPolicy(tools, policy) ==
  IF policy = Null THEN tools
  ELSE (IF policy.allow = {} THEN tools ELSE tools \cap policy.allow) \ policy.deny

\* routing.agents[id].sandbox.tools replaces agent.sandbox.tools
resolveSandboxToolPolicy(globalSandbox, agentSandbox) ==
  IF agentSandbox # Null THEN agentSandbox ELSE globalSandbox

PolicyLayers == <<"global", "agent", "sandbox", "subagent">>

PolicyInputs ==
  {[fn |-> "toolPolicy", global |-> g, agent |-> a, sandbox |-> sb,
    agentSandbox |-> asb, subagent |-> sub, applied |-> 0, effective |-> ToolNames] :
     g \in PolicyChoices, a \in PolicyChoices,
     sb \in {Null, Policy({"read", "bash"}, {})},
     asb \in {Null, Policy({}, {"browser"}), Policy({"browser"}, {})},
     sub \in PolicyChoices}

\* the policy of the layer that is applied next
LayerPolicy(in, layer) ==
  IF layer = "global" THEN in.global
  ELSE IF layer = "agent" THEN in.agent
  ELSE IF layer = "sandbox" THEN resolveSandboxToolPolicy(in.sandbox, in.agentSandbox)
  ELSE in.subagent

ApplyLayer(layer) ==
  /\ call.fn = "toolPolicy"
  /\ call.applied < Len(PolicyLayers)
  /\ PolicyLayers[call.applied + 1] = layer
  /\ call' = [call EXCEPT !.applied = @ + 1,
                          !.effective = filterToolsByPolicy(@, LayerPolicy(call, layer))]
  /\ UNCHANGED <<gateVars, session, settled, outcome, yielded, timedOut, yieldTimer,
                 timeoutTimer, timeoutFinalizeTimer, signal, kills, child, errorEmitted,
                 systemEvents, heartbeatWakes, hubVars>>

ApplyGlobalPolicy == ApplyLayer("global")
ApplyAgentPolicy == ApplyLayer("agent")
ApplySandboxPolicy == ApplyLayer("sandbox")
ApplySubagentPolicy == ApplyLayer("subagent")

PolicyInit ==
  /\ GateInit
  /\ disk = Missing
  /\ LifeIdle
  /\ HubIdle
  /\ call \in PolicyInputs

PolicyNext ==
  \/ ApplyGlobalPolicy
  \/ ApplyAgentPolicy
  \/ ApplySandboxPolicy
  \/ ApplySubagentPolicy

PolicySpec == PolicyInit /\ [][PolicyNext]_vars

(***************************************************************************)
(* The session store and the session_status tool (session-status-tool.ts). *)
(* A session key is a sequence of tokens: names, ":" and blanks.  A        *)
(* SessionEntry holds None, or <<>> for the counter, where a field is      *)
(* absent.                                                                 *)
(***************************************************************************)
ErrSessionKeyRequired == "sessionKey required"
ErrUnknownSessionKey == "Unknown sessionKey"
ErrUnrecognizedModel == "Unrecognized model"
ErrModelNotAllowed == "Model is not allowed"

MaxStoreOps == 3

DEFAULT_AGENT_ID == <<"main">>
AgentPrefix == <<"agent", ":">>
KeyMain == <<"main">>
KeyGlobal == <<"global">>
KeyPrimary == <<"primary">>
KeyDm == <<"dm", ":", "1">>

\* `agent:${agentId}:${rest}`
AgentKeyOf(aid, rest) == AgentPrefix \o aid \o <<":">> \o rest

SessionEntry(sessionId, provider, model, profile, source, count, activation) ==
  [sessionId |-> sessionId, providerOverride |-> provider, modelOverride |-> model,
   authProfileOverride |-> profile, authProfileOverrideSource |-> source,
   authProfileOverrideCompactionCount |-> count, groupActivation |-> activation]

\* the entries of the stores at the start: as the tests of
\* applyResetModelOverride build them, and one with a model override
EntryKinds == {"plain", "profile", "override"}

InitEntry(kind, sessionId) ==
  IF kind = "plain"
  THEN SessionEntry(sessionId, None, None, None, None, <<>>, "mention")
  ELSE IF kind = "profile"
  THEN SessionEntry(sessionId, None, None, "anthropic:default", "user", <<2>>, "mention")
  ELSE SessionEntry(sessionId, "minimax", "m2.1", None, None, <<>>, "mention")

StoreKeySets ==
  {{},
   {AgentKeyOf(DEFAULT_AGENT_ID, KeyDm)},
   {KeyDm, AgentKeyOf(DEFAULT_AGENT_ID, KeyDm)},
   {KeyGlobal, AgentKeyOf(DEFAULT_AGENT_ID, KeyMain)},
   {AgentKeyOf(DEFAULT_AGENT_ID, KeyMain)},
   {AgentKeyOf(DEFAULT_AGENT_ID, KeyGlobal), AgentKeyOf(DEFAULT_AGENT_ID, KeyPrimary)},
   {AgentKeyOf(DEFAULT_AGENT_ID, AgentKeyOf(DEFAULT_AGENT_ID, KeyDm))}}

InitStores ==
  {[k \in keys |-> InitEntry(kind, k)] : keys \in StoreKeySets, kind \in EntryKinds}

\* params.sessionKey ?? opts.agentSessionKey
RawKeyChoices ==
  {NoText, <<" ">>, KeyMain, <<" ", "main", " ">>, KeyDm,
   AgentKeyOf(DEFAULT_AGENT_ID, KeyDm), <<"unknown">>}

\* cfg.session and the model allowlist of cfg
ModelRef(provider, model) == [provider |-> provider, model |-> model]

ConfigDefaultModel == ModelRef("openai", "gpt-4o-mini")

CfgChoices ==
  {[mainKey |-> KeyMain, scope |-> "per-sender", allowedKeys |-> {}],
   [mainKey |-> KeyMain, scope |-> "global", allowedKeys |-> {}],
   [mainKey |-> KeyPrimary, scope |-> "per-sender", allowedKeys |-> {}],
   [mainKey |-> KeyMain, scope |-> "per-sender",
    allowedKeys |-> {ModelRef("openai", "gpt-4o-mini"), ModelRef("minimax", "m2.1")}]}

\* params.model
ModelRawChoices ==
  {NoText, <<>>, <<" ", "D", "E", "F", "A", "U", "L", "T">>,
   <<"minimax", "/", "m2.1">>, <<"gpt-4o-mini">>, <<"openai", "/", "gpt-4o-mini">>,
   <<"minimax", "/">>}

RawDefault == <<"d", "e", "f", "a", "u", "l", "t">>

\* resolveMainSessionAlias(cfg)
resolveMainSessionAlias(cfg) ==
  [mainKey |-> cfg.mainKey,
   alias |-> IF cfg.scope = "global" THEN KeyGlobal ELSE cfg.mainKey]

\* resolveInternalSessionKey({ key, alias, mainKey })
resolveInternalSessionKey(key, alias, mainKey) ==
  IF key = KeyMain THEN alias ELSE key

\* buildAgentMainSessionKey({ agentId, mainKey })
buildAgentMainSessionKey(aid, mainKey) == AgentKeyOf(aid, mainKey)

\* lines 127-141: the candidates in the order the Set keeps them
CandidatesPrefixedFirst(keyRaw, alias, mainKey) ==
  LET internal == resolveInternalSessionKey(keyRaw, alias, mainKey)
  IN <<keyRaw>>
     \o (IF ~startsWith(keyRaw, AgentPrefix)
         THEN <<AgentKeyOf(DEFAULT_AGENT_ID, keyRaw), AgentKeyOf(DEFAULT_AGENT_ID, internal)>>
         ELSE <<>>)
     \o <<internal>>
     \o (IF keyRaw = KeyMain
         THEN <<buildAgentMainSessionKey(DEFAULT_AGENT_ID, mainKey)>>
         ELSE <<>>)

Candidates(keyRaw, alias, mainKey) ==
  LET internal == resolveInternalSessionKey(keyRaw, alias, mainKey)
  IN <<keyRaw, internal>>
     \o (IF ~startsWith(keyRaw, AgentPrefix)
         THEN <<AgentKeyOf(DEFAULT_AGENT_ID, keyRaw), AgentKeyOf(DEFAULT_AGENT_ID, internal)>>
         ELSE <<>>)
     \o (IF keyRaw = KeyMain
         THEN <<buildAgentMainSessionKey(DEFAULT_AGENT_ID, mainKey)>>
         ELSE <<>>)

\* lines 115-149
resolveSessionEntry(store, keyRawIn, alias, mainKey) ==
  LET keyRaw == trim(keyRawIn)
      candidates == Candidates(keyRaw, alias, mainKey)
      found == {i \in 1..Len(candidates) : candidates[i] \in DOMAIN store}
      first == CHOOSE i \in found : \A j \in found : i <= j
  IN IF keyRaw = <<>> \/ found = {} THEN Null
     ELSE [key |-> candidates[first], entry |-> store[candidates[first]]]

\* resolveModelRefFromString({ raw, defaultProvider, aliasIndex }): Null when
\* the text names no model
resolveModelRefFromString(raw, defaultProvider) ==
  IF Len(raw) = 1 THEN ModelRef(defaultProvider, raw[1])
  ELSE IF Len(raw) = 3 /\ raw[2] = "/" THEN ModelRef(raw[1], raw[3])
  ELSE Null

Selection(kind, provider, model, isDefault, message) ==
  [kind |-> kind, provider |-> provider, model |-> model, isDefault |-> isDefault,
   error |-> message]

\* lines 151-209: kind is "reset", "set" or, when it throws, "throw"
resolveModelOverride(cfg, rawIn, entry) ==
  LET raw == trim(rawIn)
      currentProvider == Coalesce(entry.providerOverride, ConfigDefaultModel.provider)
      resolved == resolveModelRefFromString(raw, currentProvider)
  IN IF raw = <<>> \/ toLowerCase(raw) = RawDefault
     THEN Selection("reset", None, None, FALSE, None)
     ELSE IF resolved = Null
     THEN Selection("throw", None, None, FALSE, ErrUnrecognizedModel)
     ELSE IF cfg.allowedKeys # {} /\ resolved \notin cfg.allowedKeys
     THEN Selection("throw", None, None, FALSE, ErrModelNotAllowed)
     ELSE Selection("set", resolved.provider, resolved.model,
                    resolved = ConfigDefaultModel, None)

\* applyModelOverrideToSessionEntry({ entry, selection }) with no profile
\* override: the entry afterwards and whether anything changed
applyModelOverrideToSessionEntryKeepsProvider(entry, selection) ==
  LET next == [entry EXCEPT
                 !.modelOverride = IF selection.isDefault THEN None ELSE selection.model,
                 !.authProfileOverride = None,
                 !.authProfileOverrideSource = None,
                 !.authProfileOverrideCompactionCount = <<>>]
  IN [entry |-> next, updated |-> next # entry]

applyModelOverrideToSessionEntry(entry, selection) ==
  LET next == [entry EXCEPT
                 !.providerOverride = IF selection.isDefault THEN None
                                      ELSE selection.provider,
                 !.modelOverride = IF selection.isDefault THEN None ELSE selection.model,
                 !.authProfileOverride = None,
                 !.authProfileOverrideSource = None,
                 !.authProfileOverrideCompactionCount = <<>>]
  IN [entry |-> next, updated |-> next # entry]

\* lines 257-268: the selection the tool hands on
ToolSelection(selection) ==
  IF selection.kind = "reset"
  THEN Selection("set", ConfigDefaultModel.provider, ConfigDefaultModel.model, TRUE, None)
  ELSE selection

\* store[key] = entry
SetEntry(store, key, entry) ==
  [k \in DOMAIN store \cup {key} |-> IF k = key THEN entry ELSE store[k]]

\* lines 272-274: the mutator the tool passes to updateSessionStore
StatusMutatorModelOnly(nextStore, key, nextEntry) ==
  SetEntry(nextStore, key,
           [nextStore[key] EXCEPT !.modelOverride = nextEntry.modelOverride])

StatusMutator(nextStore, key, nextEntry) ==
  SetEntry(nextStore, key, nextEntry)

\* updateSessionStore(storePath, mutator): read, mutate and write under the
\* mutex of the path
updateSessionStore(store, mutator(_)) == mutator(store)

StatusCall(at, keyRaw, cfg, modelRaw, resolved, changedModel, message) ==
  [pc |-> at, requestedKeyRaw |-> keyRaw, cfg |-> cfg, modelRaw |-> modelRaw,
   resolved |-> resolved, changedModel |-> changedModel, error |-> message]

\* lines 220-245: the store is loaded and the entry looked up; a call with a
\* model goes on to await resolveModelOverride
StatusLookup ==
  /\ statusCall = NoStatus
  /\ storeOps < MaxStoreOps
  /\ storeOps' = storeOps + 1
  /\ \E requestedKeyRaw \in RawKeyChoices, cfg \in CfgChoices,
        modelRaw \in ModelRawChoices :
       LET names == resolveMainSessionAlias(cfg)
           store == sessionStore
           resolved == resolveSessionEntry(store, requestedKeyRaw, names.alias,
                                           names.mainKey)
           started(at, found, message) ==
             StatusCall(at, requestedKeyRaw, cfg, modelRaw, found, FALSE, message)
       IN statusCall' =
            IF requestedKeyRaw = NoText \/ trim(requestedKeyRaw) = <<>>
            THEN started("failed", Null, ErrSessionKeyRequired)
            ELSE IF resolved = Null
            THEN started("failed", Null, ErrUnknownSessionKey)
            ELSE IF modelRaw # NoText
            THEN started("selecting", resolved, None)
            ELSE started("card", resolved, None)
  /\ UNCHANGED <<sessionStore, gateVars, session, settled, outcome, yielded, timedOut,
                 yieldTimer, timeoutTimer, timeoutFinalizeTimer, signal, kills, child,
                 errorEmitted, systemEvents, heartbeatWakes, call, routerVars,
                 streamVars, queueVars>>

\* lines 246-278: the selection is back; the copy of the entry that was
\* looked up takes the override and goes to the store
StatusApply ==
  /\ statusCall # NoStatus
  /\ statusCall.pc = "selecting"
  /\ LET resolved == statusCall.resolved
         selection == resolveModelOverride(statusCall.cfg, statusCall.modelRaw,
                                           resolved.entry)
         applied == applyModelOverrideToSessionEntry(resolved.entry,
                                                     ToolSelection(selection))
         mutator(nextStore) == StatusMutator(nextStore, resolved.key, applied.entry)
     IN IF selection.kind = "throw"
        THEN /\ statusCall' = [statusCall EXCEPT !.pc = "failed",
                                                 !.error = selection.error]
             /\ UNCHANGED sessionStore
        ELSE IF applied.updated
        THEN /\ sessionStore' = updateSessionStore(sessionStore, mutator)
             /\ statusCall' = [statusCall EXCEPT !.pc = "card",
                                                 !.resolved.entry = applied.entry,
                                                 !.changedModel = TRUE]
        ELSE /\ statusCall' = [statusCall EXCEPT !.pc = "card"]
             /\ UNCHANGED sessionStore
  /\ UNCHANGED <<storeOps, gateVars, session, settled, outcome, yielded, timedOut,
                 yieldTimer, timeoutTimer, timeoutFinalizeTimer, signal, kills, child,
                 errorEmitted, systemEvents, heartbeatWakes, call, routerVars,
                 streamVars, queueVars>>

\* lines 280-371: the status card is returned, or the error thrown
StatusReturns ==
  /\ statusCall # NoStatus
  /\ statusCall.pc \in {"card", "failed"}
  /\ statusCall' = NoStatus
  /\ UNCHANGED <<sessionStore, storeOps, gateVars, session, settled, outcome, yielded,
                 timedOut, yieldTimer, timeoutTimer, timeoutFinalizeTimer, signal,
                 kills, child, errorEmitted, systemEvents, heartbeatWakes, call,
                 routerVars, streamVars, queueVars>>

GroupActivations == {"mention", "any"}

\* another writer of the store: updateSessionStore with a mutator that sets
\* the group activation of one entry
ActivationWrite ==
  /\ storeOps < MaxStoreOps
  /\ storeOps' = storeOps + 1
  /\ \E key \in DOMAIN sessionStore, activation \in GroupActivations :
       LET mutator(nextStore) ==
             SetEntry(nextStore, key,
                      [nextStore[key] EXCEPT !.groupActivation = activation])
       IN sessionStore' = updateSessionStore(sessionStore, mutator)
  /\ UNCHANGED <<statusCall, gateVars, session, settled, outcome, yielded, timedOut,
                 yieldTimer, timeoutTimer, timeoutFinalizeTimer, signal, kills, child,
                 errorEmitted, systemEvents, heartbeatWakes, call, routerVars,
                 streamVars, queueVars>>

\* the bodies after a reset trigger: a model hint and the rest, or no hint
ResetBodies == {<<"minimax", "summarize">>, <<"summarize">>}

\* the model the first word of the body selects in the catalog, or Null
ResetModelHint(body) ==
  IF Head(body) = "minimax" THEN ModelRef("minimax", "m2.1") ELSE Null

\* applyResetModelOverride({ resetTriggered, bodyStripped, sessionEntry,
\* sessionStore, sessionKey, ... })
applyResetModelOverride ==
  /\ storeOps < MaxStoreOps
  /\ storeOps' = storeOps + 1
  /\ \E key \in DOMAIN sessionStore, resetTriggered \in BOOLEAN,
        bodyStripped \in ResetBodies :
       LET hint == ResetModelHint(bodyStripped)
           applied == applyModelOverrideToSessionEntry(
                        sessionStore[key],
                        Selection("set", hint.provider, hint.model,
                                  hint = ConfigDefaultModel, None))
           mutator(nextStore) == SetEntry(nextStore, key, applied.entry)
       IN IF resetTriggered /\ hint # Null /\ applied.updated
          THEN sessionStore' = updateSessionStore(sessionStore, mutator)
          ELSE UNCHANGED sessionStore
  /\ UNCHANGED <<statusCall, gateVars, session, settled, outcome, yielded, timedOut,
                 yieldTimer, timeoutTimer, timeoutFinalizeTimer, signal, kills, child,
                 errorEmitted, systemEvents, heartbeatWakes, call, routerVars,
                 streamVars, queueVars>>

StoreInit ==
  /\ ExecIdle
  /\ RouterIdle
  /\ StreamIdle
  /\ QueueIdle
  /\ sessionStore \in InitStores
  /\ statusCall = NoStatus
  /\ storeOps = 0

StoreNext ==
  \/ StatusLookup
  \/ StatusApply
  \/ StatusReturns
  \/ ActivationWrite
  \/ applyResetModelOverride

StoreSpec == StoreInit /\ [][StoreNext]_vars

StoreTypeOK == storeOps \in 0..MaxStoreOps

\* the step handles the node.invoke of operator c
Invokes(c) == callers[c] = NoRpc /\ callers'[c] # NoRpc

\* the step sends a node.invoke.request to a node
Forwards == forwarded' # forwarded

\* C23: a node.invoke is forwarded to the node only if its command is in the
\* list the node declared and in the catalog of the node's platform;
\* otherwise the caller gets ok:false with the error "node command not
\* allowed" and nothing is sent to the node.
C23_ForwardOnlyAllowed ==
  /\ [][\A c \in Operators :
          Invokes(c) /\ registry[callers'[c].nodeId].connected =>
            LET rpc == callers'[c]
                node == registry[rpc.nodeId]
                declared == rpc.command \in node.commands
                catalogued == \/ rpc.command = "canvas.snapshot"
                              \/ rpc.command = "system.run" /\ node.platform # "ios"
            IN IF declared /\ catalogued
               THEN rpc.ticket # 0
               ELSE /\ rpc.state = "answered"
                    /\ ~rpc.res.ok
                    /\ rpc.res.error = ErrNodeCommandNotAllowed
                    /\ rpc.ticket = 0
                    /\ ~Forwards]_vars
  /\ [][Forwards =>
          LET req == forwarded'[Len(forwarded')]
              node == registry[req.nodeId]
          IN /\ Len(forwarded') = Len(forwarded) + 1
             /\ node.connected
             /\ req.command \in node.commands
             /\ ~(req.command = "system.run" /\ node.platform = "ios")
             /\ \E c \in Operators :
                  /\ Invokes(c)
                  /\ callers'[c].nodeId = req.nodeId
                  /\ callers'[c].command = req.command]_vars

\* one operator was refused system.run on an ios node that declares it, and
\* another operator's canvas.snapshot was forwarded
C23_Witness ==
  \E c \in Operators, n \in RegistryNodes :
    /\ callers[c] # NoRpc
    /\ callers[c].nodeId = n
    /\ callers[c].command = "system.run"
    /\ callers[c].res.error = ErrNodeCommandNotAllowed
    /\ registry[n].connected
    /\ registry[n].platform = "ios"
    /\ "system.run" \in registry[n].commands
    /\ \E i \in 1..Len(forwarded) : forwarded[i].command = "canvas.snapshot"

\* the tickets in their retention window under the key of the rpc
HeldUnder(rpc) ==
  {t \in tickets : t.nodeId = rpc.nodeId /\ t.idempotencyKey = rpc.idempotencyKey}

RequestsOf(id) == {i \in 1..Len(forwarded) : forwarded[i].id = id}

\* C24: of two node.invoke calls with the same (nodeId, idempotencyKey)
\* inside the retention window, in any interleaving, exactly one
\* node.invoke.request reaches the node: the later call sends nothing, joins
\* the ticket of the earlier one and gets the result of that one invocation.
C24_OneRequestPerKey ==
  /\ [][\A c \in Operators :
          Invokes(c) /\ HeldUnder(callers'[c]) # {} =>
            /\ ~Forwards
            /\ callers'[c].ticket # 0 =>
                 \E t \in HeldUnder(callers'[c]) :
                   /\ callers'[c].ticket = t.id
                   /\ IF t.state = "resolved"
                      THEN callers'[c].state = "answered" /\ callers'[c].res = t.result
                      ELSE callers'[c].state = "waiting"]_vars
  /\ [](\A t \in tickets : Cardinality(RequestsOf(t.id)) = 1)
  /\ [](\A t1, t2 \in tickets :
          t1.nodeId = t2.nodeId /\ t1.idempotencyKey = t2.idempotencyKey => t1 = t2)
  /\ [](\A c1, c2 \in Operators :
          /\ callers[c1] # NoRpc
          /\ callers[c2] # NoRpc
          /\ callers[c1].ticket # 0
          /\ callers[c1].ticket = callers[c2].ticket
          => /\ callers[c1].state = callers[c2].state
             /\ callers[c1].res = callers[c2].res)
  /\ [](\A c \in Operators, t \in tickets :
          callers[c] # NoRpc /\ callers[c].ticket = t.id =>
            IF t.state = "resolved"
            THEN callers[c].state = "answered" /\ callers[c].res = t.result
            ELSE callers[c].state = "waiting" /\ c \in t.pendingResponders)

\* both operators called with one key, one request went out, and both hold
\* the result the node gave
C24_Witness ==
  /\ callers["op-1"] # NoRpc
  /\ callers["op-2"] # NoRpc
  /\ callers["op-1"].ticket = 1
  /\ callers["op-2"].ticket = 1
  /\ callers["op-1"].state = "answered"
  /\ callers["op-2"].res = InvokeResult(TRUE, "null", None)
  /\ Len(forwarded) = 1

\* the event frames of a sequence of frames, as their positions
Events(frames) == {i \in 1..Len(frames) : frames[i].type = "event"}

\* seq s is accounted for before position j of what the client saw: its
\* frame came, or a seqGap that spans it did
SeenBefore(s, j) ==
  \E i \in 1..(j - 1) :
    \/ observed[i].type = "event" /\ observed[i].seq = s
    \/ /\ observed[i].type = "seqGap"
       /\ observed[i].expected <= s
       /\ s < observed[i].received

\* C25: of two frames sent to one client with F1.seq < F2.seq the client
\* receives F1 before F2 or observes a seqGap before F2; the seq values of
\* the stream start at 1 and strictly increase.
C25_OrderOrSeqGap ==
  /\ nextSeq = 1
  /\ [][wire' # wire /\ Len(wire') > Len(wire) /\ wire'[Len(wire')].type = "event" =>
          /\ wire'[Len(wire')].seq = nextSeq
          /\ nextSeq' = nextSeq + 1]_vars
  /\ [](\A i, j \in Events(wire) : i < j => wire[i].seq < wire[j].seq)
  /\ [](\A i \in Events(wire) : \A j \in Events(observed) : observed[j].seq < wire[i].seq)
  /\ [](\A j \in Events(observed) :
          /\ observed[j].seq < nextSeq
          /\ \A s \in 1..(observed[j].seq - 1) : SeenBefore(s, j))

\* the client saw event 1, then a seqGap for the lost event 2, then event 3
C25_Witness ==
  /\ Len(observed) >= 3
  /\ observed[1] = EventFrame(1)
  /\ observed[2] = SeqGap(2, 3)
  /\ observed[3] = EventFrame(3)

\* the step submits a message
Submits == submitted' = submitted + 1

\* C26: at most one turn is in flight per session key at any time: a
\* message submitted while a turn of the session runs is queued, or dropped
\* under the cap and the drop policy, and starts no parallel turn.
C26_OneTurnPerSession ==
  /\ [](\A k \in SessionKeys : Cardinality(turns[k]) <= 1)
  /\ [][Submits =>
          /\ turns' = turns
          /\ \E k \in SessionKeys :
               /\ \A other \in SessionKeys \ {k} : queues'[other] = queues[other]
               /\ \/ queues'[k] = Append(queues[k], submitted')
                  \/ Len(queues[k]) = QueueCap /\ queues'[k] = queues[k]
                  \/ /\ Len(queues[k]) = QueueCap
                     /\ queues'[k] = Append(Tail(queues[k]), submitted')
               /\ Len(queues'[k]) <= QueueCap]_vars
  /\ [][\A k \in SessionKeys : turns[k] # {} => turns'[k] \subseteq turns[k]]_vars

\* a turn of session main is in flight while two later messages wait
C26_Witness ==
  /\ Cardinality(turns["main"]) = 1
  /\ Len(queues["main"]) = QueueCap
  /\ submitted = QueueCap + 1

\* the policies of the layers applied so far, in order
AppliedPolicies ==
  [i \in 1..call.applied |->
     IF i = 1 THEN call.global
     ELSE IF i = 2 THEN call.agent
     ELSE IF i = 3 THEN (IF call.agentSandbox # Null THEN call.agentSandbox
                         ELSE call.sandbox)
     ELSE call.subagent]

\* the policy denies the tool, or leaves it out of a non-empty allow list
Withholds(policy, tool) ==
  policy # Null /\ (tool \in policy.deny \/ (policy.allow # {} /\ tool \notin policy.allow))

\* C27: composing the tool policy layers global, agent, sandbox, subagent
\* only restricts: the tool set after each layer is a subset of the set
\* after the layer before, and a tool an earlier layer denied or left out of
\* its non-empty allow list is not available whatever later layers allow.
C27_LayersOnlyRestrict ==
  /\ [][call'.effective \subseteq call.effective]_vars
  /\ [](\A i \in 1..call.applied : \A tool \in ToolNames :
          Withholds(AppliedPolicies[i], tool) => tool \notin call.effective)

\* the global layer denied browser, a later layer allows only browser, and
\* all four layers were applied
C27_Witness ==
  /\ call.applied = 4
  /\ call.global = Policy({}, {"browser"})
  /\ call.subagent = Policy({"browser"}, {})
  /\ call.agent = Null
  /\ call.effective = {}

PairedOverrides(entry) ==
  (entry.providerOverride = None) <=> (entry.modelOverride = None)

ProfileCleared(entry) ==
  /\ entry.authProfileOverride = None
  /\ entry.authProfileOverrideSource = None
  /\ entry.authProfileOverrideCompactionCount = <<>>

\* the step changes the model override of the entry under the key
ModelChanges(key) ==
  \/ sessionStore'[key].providerOverride # sessionStore[key].providerOverride
  \/ sessionStore'[key].modelOverride # sessionStore[key].modelOverride

\* session_status comes back from resolveModelOverride with a selection
StatusSelects == statusCall # NoStatus /\ statusCall.pc = "selecting"

\* C28: after every model-override operation on a session entry (a set or a
\* reset through session_status, a reset through applyResetModelOverride)
\* providerOverride and modelOverride are both set or both absent, and an
\* operation that resets or changes the model leaves authProfileOverride,
\* its source and its compaction counter cleared.
C28_OverridesPaired ==
  /\ [](\A key \in DOMAIN sessionStore : PairedOverrides(sessionStore[key]))
  /\ [](statusCall # NoStatus /\ statusCall.resolved # Null =>
          PairedOverrides(statusCall.resolved.entry))
  /\ [][\A key \in DOMAIN sessionStore :
          ModelChanges(key) => ProfileCleared(sessionStore'[key])]_vars
  /\ [][StatusSelects /\ statusCall'.pc = "card" =>
          /\ ProfileCleared(statusCall'.resolved.entry)
          /\ ProfileCleared(sessionStore'[statusCall.resolved.key])]_vars

\* session_status set minimax/m2.1 on an entry that had no model override,
\* as the first operation on the store
C28_Witness ==
  /\ statusCall # NoStatus
  /\ statusCall.pc = "card"
  /\ statusCall.changedModel
  /\ storeOps = 1
  /\ sessionStore[statusCall.resolved.key].providerOverride = "minimax"
  /\ sessionStore[statusCall.resolved.key].modelOverride = "m2.1"

\* the position of the first key of the sequence that the store holds, 0
\* when it holds none
FirstStored(keys) ==
  IF \E i \in 1..Len(keys) : keys[i] \in DOMAIN sessionStore
  THEN CHOOSE i \in 1..Len(keys) :
         /\ keys[i] \in DOMAIN sessionStore
         /\ \A j \in 1..(i - 1) : keys[j] \notin DOMAIN sessionStore
  ELSE 0

\* alias(k): the alias of the main session for "main", k itself otherwise
MainAlias(k, cfg) ==
  IF k # KeyMain THEN k
  ELSE IF cfg.scope = "global" THEN KeyGlobal ELSE cfg.mainKey

\* the step is the lookup of a session_status call with a key
LooksUp ==
  /\ statusCall = NoStatus
  /\ statusCall' # NoStatus
  /\ statusCall'.requestedKeyRaw # NoText
  /\ trim(statusCall'.requestedKeyRaw) # <<>>

\* the lookup answered as the order of keys says
Answers(keys) ==
  IF FirstStored(keys) = 0
  THEN statusCall'.resolved = Null /\ statusCall'.error = ErrUnknownSessionKey
  ELSE /\ statusCall'.resolved # Null
       /\ statusCall'.resolved.key = keys[FirstStored(keys)]
       /\ statusCall'.resolved.entry = sessionStore[keys[FirstStored(keys)]]

\* C29 as stated: a session lookup for key k returns the entry stored under
\* the first existing key in the order k, agent:<default>:k,
\* agent:<default>:<alias(k)>, the canonical main session key, and null when
\* none of them exists.
C29_LookupOrder ==
  [][LooksUp =>
       LET k == trim(statusCall'.requestedKeyRaw)
           cfg == statusCall'.cfg
       IN Answers(<<k,
                    <<"agent", ":", "main", ":">> \o k,
                    <<"agent", ":", "main", ":">> \o MainAlias(k, cfg),
                    <<"agent", ":", "main", ":">> \o cfg.mainKey>>)]_vars

\* C29 amended: a session lookup for key k returns the entry stored under
\* the first existing key in the order k, alias(k), then, only when k does
\* not start with "agent:", agent:<default>:k and
\* agent:<default>:<alias(k)>, then, only when k is "main", the canonical
\* main session key, and null when none of them exists.
C29_LookupOrderWithAlias ==
  [][LooksUp =>
       LET k == trim(statusCall'.requestedKeyRaw)
           cfg == statusCall'.cfg
           prefixed == IF Len(k) >= 2 /\ k[1] = "agent" /\ k[2] = ":" THEN <<>>
                       ELSE << <<"agent", ":", "main", ":">> \o k,
                               <<"agent", ":", "main", ":">> \o MainAlias(k, cfg) >>
           canonical == IF k = KeyMain
                        THEN << <<"agent", ":", "main", ":">> \o cfg.mainKey >>
                        ELSE <<>>
       IN Answers(<<k, MainAlias(k, cfg)>> \o prefixed \o canonical)]_vars

\* "main" was looked up under the global scope in a store that holds both
\* "global" and "agent:main:main", and the entry under "global" came back
C29_Witness ==
  /\ statusCall # NoStatus
  /\ statusCall.requestedKeyRaw = KeyMain
  /\ statusCall.cfg.scope = "global"
  /\ statusCall.resolved # Null
  /\ statusCall.resolved.key = KeyGlobal
  /\ AgentKeyOf(DEFAULT_AGENT_ID, KeyMain) \in DOMAIN sessionStore

\* C30: session-store writes are serialized read-modify-writes, so no
\* update is lost: when session_status writes a model override to entry K,
\* what another writer has written meanwhile to another field of K or to
\* another key of the store is still there afterwards.
C30_NoLostUpdate ==
  [][StatusSelects /\ statusCall'.changedModel =>
       \A key \in DOMAIN sessionStore :
         /\ sessionStore'[key].groupActivation = sessionStore[key].groupActivation
         /\ key # statusCall.resolved.key => sessionStore'[key] = sessionStore[key]]_vars

(***************************************************************************)
(* 4.B  The SSRF guard of infra/net/ssrf.ts.  A host name is a character   *)
(* sequence.  Number.parseInt returns NaN or a number: NaN is <<>> and a   *)
(* number n is <<n>>.  parseIpv4 returns null or four numbers: null is     *)
(* <<>>.                                                                   *)
(***************************************************************************)
NaN == <<>>
HexDigits == <<"0","1","2","3","4","5","6","7","8","9","a","b","c","d","e","f">>

\* the value of the digit c in the radix, -1 when c is no digit of it
DigitValue(c, radix) ==
  IF \E i \in 1..radix : HexDigits[i] = LowerChar(c)
  THEN (CHOOSE i \in 1..radix : HexDigits[i] = LowerChar(c)) - 1
  ELSE -1

\* the longest prefix of s made of digits of the radix
RECURSIVE DigitPrefix(_, _)
DigitPrefix(s, radix) ==
  IF s # <<>> /\ DigitValue(Head(s), radix) >= 0
  THEN <<Head(s)>> \o DigitPrefix(Tail(s), radix)
  ELSE <<>>

RECURSIVE DigitsValue(_, _)
DigitsValue(digits, radix) ==
  IF digits = <<>> THEN 0
  ELSE DigitsValue(SubSeq(digits, 1, Len(digits) - 1), radix) * radix
         + DigitValue(digits[Len(digits)], radix)

\* Number.parseInt(s, radix): leading white space, a sign, 0x for radix 16, then the
\* digits up to the first character that is none; for values below 2^31
parseInt(s, radix) ==
  LET t == trimStart(s)
      negative == t # <<>> /\ Head(t) = "-"
      unsigned == IF t # <<>> /\ Head(t) \in {"+", "-"} THEN Tail(t) ELSE t
      body == IF radix = 16 /\ Len(unsigned) >= 2 /\ unsigned[1] = "0"
                 /\ unsigned[2] \in {"x", "X"}
              THEN SubSeq(unsigned, 3, Len(unsigned)) ELSE unsigned
      digits == DigitPrefix(body, radix)
  IN IF digits = <<>> THEN NaN
     ELSE IF negative THEN <<0 - DigitsValue(digits, radix)>>
     ELSE <<DigitsValue(digits, radix)>>

\* s.split(sep) for a one-character separator
RECURSIVE split(_, _)
split(s, sep) ==
  LET i == indexOf(s, sep, 0)
  IN IF i = -1 THEN <<s>>
     ELSE <<slice(s, 0, i)>> \o split(slice(s, i + 1, Len(s)), sep)

endsWith(s, p) == Len(s) >= Len(p) /\ SubSeq(s, Len(s) - Len(p) + 1, Len(s)) = p

StripBrackets(s) ==
  IF startsWith(s, <<"[">>) /\ endsWith(s, <<"]">>) THEN SubSeq(s, 2, Len(s) - 1) ELSE s

normalizeHostname(hostname) ==
  LET lowered == toLowerCase(trim(hostname))
      normalized == IF endsWith(lowered, <<".">>)
                    THEN SubSeq(lowered, 1, Len(lowered) - 1) ELSE lowered
  IN StripBrackets(normalized)

parseIpv4(address) ==
  LET parts == split(address, ".")
      numbers == [i \in 1..Len(parts) |-> parseInt(parts[i], 10)]
  IN IF Len(parts) # 4 THEN <<>>
     ELSE IF \E i \in 1..4 : numbers[i] = NaN \/ numbers[i][1] < 0 \/ numbers[i][1] > 255
     THEN <<>>
     ELSE [i \in 1..4 |-> numbers[i][1]]

\* (value >>> shift) & 0xff of a 32-bit value held as a signed 32-bit integer
ShiftByte(value, shift) == (value \div (2 ^ shift)) % 256

ValueOctets(value) ==
  <<ShiftByte(value, 24), ShiftByte(value, 16), ShiftByte(value, 8), ShiftByte(value, 0)>>

\* high << 16, a signed 32-bit integer
ShiftLeft16(high) == IF high >= 32768 THEN (high - 65536) * 65536 ELSE high * 65536

parseIpv4FromMappedIpv6(mapped) ==
  IF includes(mapped, ".") THEN parseIpv4(mapped)
  ELSE LET parts == SelectSeq(split(mapped, ":"), LAMBDA part : part # <<>>)
       IN IF Len(parts) = 1
          THEN LET value == parseInt(parts[1], 16)
               IN IF value = NaN \/ value[1] < 0 THEN <<>> ELSE ValueOctets(value[1])
          ELSE IF Len(parts) # 2 THEN <<>>
          ELSE LET high == parseInt(parts[1], 16)
                   low == parseInt(parts[2], 16)
               IN IF high = NaN \/ low = NaN THEN <<>>
                  ELSE IF high[1] < 0 \/ low[1] < 0 \/ high[1] > 65535 \/ low[1] > 65535
                  THEN <<>>
                  ELSE ValueOctets(ShiftLeft16(high[1]) + low[1])

isPrivateIpv4(parts) ==
  \/ parts[1] = 0
  \/ parts[1] = 10
  \/ parts[1] = 127
  \/ parts[1] = 169 /\ parts[2] = 254
  \/ parts[1] = 172 /\ parts[2] >= 16 /\ parts[2] <= 31
  \/ parts[1] = 192 /\ parts[2] = 168
  \/ parts[1] = 100 /\ parts[2] >= 64 /\ parts[2] <= 127

PRIVATE_IPV6_PREFIXES == << <<"f","e","8","0",":">>, <<"f","e","c","0",":">>, <<"f","c">>, <<"f","d">> >>
MappedPrefix == <<":",":","f","f","f","f",":">>

isPrivateIpAddress(address) ==
  LET normalized == StripBrackets(toLowerCase(trim(address)))
      mapped == IF startsWith(normalized, MappedPrefix)
                THEN parseIpv4FromMappedIpv6(slice(normalized, Len(MappedPrefix),
                                                   Len(normalized)))
                ELSE <<>>
  IN IF normalized = <<>> THEN FALSE
     ELSE IF mapped # <<>> THEN isPrivateIpv4(mapped)
     ELSE IF includes(normalized, ":")
     THEN \/ normalized = <<":", ":">>
          \/ normalized = <<":", ":", "1">>
          \/ \E i \in 1..Len(PRIVATE_IPV6_PREFIXES) :
               startsWith(normalized, PRIVATE_IPV6_PREFIXES[i])
     ELSE LET ipv4 == parseIpv4(normalized)
          IN ipv4 # <<>> /\ isPrivateIpv4(ipv4)

NameLocalhost == <<"l","o","c","a","l","h","o","s","t">>
NameMetadata == <<"m","e","t","a","d","a","t","a",".","g","o","o","g","l","e",".",
                  "i","n","t","e","r","n","a","l">>
BLOCKED_HOSTNAMES == {NameLocalhost, NameMetadata}

isBlockedHostname(hostname) ==
  LET normalized == normalizeHostname(hostname)
  IN IF normalized = <<>> THEN FALSE
     ELSE \/ normalized \in BLOCKED_HOSTNAMES
          \/ endsWith(normalized, <<".">> \o NameLocalhost)
          \/ endsWith(normalized, <<".","l","o","c","a","l">>)
          \/ endsWith(normalized, <<".","i","n","t","e","r","n","a","l">>)

(***************************************************************************)
(* The hosts the guard is asked about.  An IP literal is written from the  *)
(* address it denotes: four octets in dotted decimal, an IPv6 address      *)
(* g1:0:0:0:0:0:0:g8 with its zero groups compressed, an IPv4-mapped IPv6  *)
(* address ::ffff:a.b.c.d either dotted or as two hexadecimal groups.      *)
(***************************************************************************)
RECURSIVE NumberText(_, _)
NumberText(n, radix) ==
  IF n < radix THEN <<HexDigits[n + 1]>>
  ELSE NumberText(n \div radix, radix) \o <<HexDigits[(n % radix) + 1]>>

DottedText(octets) ==
  NumberText(octets[1], 10) \o <<".">> \o NumberText(octets[2], 10) \o <<".">>
    \o NumberText(octets[3], 10) \o <<".">> \o NumberText(octets[4], 10)

GroupsText(first, last) ==
  (IF first = 0 THEN <<>> ELSE NumberText(first, 16)) \o <<":", ":">>
    \o (IF last = 0 THEN <<>> ELSE NumberText(last, 16))

UpperChar(c) ==
  IF \E i \in 1..Len(LowerChars) : LowerChars[i] = c
  THEN UpperChars[CHOOSE i \in 1..Len(LowerChars) : LowerChars[i] = c]
  ELSE c

Ipv4(octets) ==
  [family |-> "ipv4", octets |-> octets, first |-> 0, last |-> 0,
   text |-> DottedText(octets)]

Ipv6(first, last, form) ==
  [family |-> "ipv6", octets |-> <<>>, first |-> first, last |-> last,
   text |-> IF form = "bracket" THEN <<"[">> \o GroupsText(first, last) \o <<"]">>
            ELSE IF form = "upper"
            THEN [i \in 1..Len(GroupsText(first, last)) |->
                    UpperChar(GroupsText(first, last)[i])]
            ELSE GroupsText(first, last)]

MappedIpv6(octets, form) ==
  [family |-> "mapped", octets |-> octets, first |-> 0, last |-> 0,
   text |-> IF form = "dotted" THEN MappedPrefix \o DottedText(octets)
            ELSE MappedPrefix \o NumberText(octets[1] * 256 + octets[2], 16) \o <<":">>
                   \o NumberText(octets[3] * 256 + octets[4], 16)]

HostName(text) ==
  [family |-> "name", octets |-> <<>>, first |-> 0, last |-> 0, text |-> text]

V4FirstOctets == {0, 8, 10, 100, 127, 169, 172, 192}
V4SecondOctets == {0, 15, 16, 31, 32, 63, 64, 127, 128, 168, 254}
\* 0, 2001, fc00, fd12, fdff, fe00, fe80, fe90, febf, fec0, feff, ff02
V6FirstGroups == {0, 8193, 64512, 64786, 65023, 65024, 65152, 65168, 65215, 65216, 65279,
                  65282}

V4Octets == {<<a, b, 0, 1>> : a \in V4FirstOctets, b \in V4SecondOctets}

IpLiterals ==
  {Ipv4(o) : o \in V4Octets}
    \cup {Ipv6(g, l, f) : g \in V6FirstGroups, l \in {0, 1}, f \in {"plain", "bracket", "upper"}}
    \cup {MappedIpv6(o, f) : o \in V4Octets, f \in {"dotted", "hex"}}

NamePublic == <<"a",".","i","o">>
HostNames ==
  {HostName(n) : n \in {<<>>, <<" ">>, NamePublic, NamePublic \o <<".">>, NameLocalhost,
                        NameMetadata, <<"a",".">> \o NameLocalhost,
                        <<"a",".","l","o","c","a","l">>,
                        <<"a",".","i","n","t","e","r","n","a","l">>}}

\* the address is in one of the ranges the guard is to reject
PrivateV4(octets) ==
  \/ octets[1] \in {0, 10, 127}
  \/ octets[1] = 169 /\ octets[2] = 254
  \/ octets[1] = 172 /\ octets[2] \div 16 = 1
  \/ octets[1] = 192 /\ octets[2] = 168
  \/ octets[1] = 100 /\ octets[2] \div 64 = 1

PrivateAddress(a) ==
  CASE a.family = "ipv4" -> PrivateV4(a.octets)
    [] a.family = "mapped" -> PrivateV4(a.octets)
    [] a.family = "ipv6" ->
         \/ a.first = 0 /\ a.last \in {0, 1}
         \/ a.first \div 512 = 64512 \div 512
         \/ a.first \div 64 = 65152 \div 64
         \/ a.first \div 64 = 65216 \div 64
    [] OTHER -> FALSE

\* what dns.lookup(host, { all: true }) can return: an IP literal resolves to itself,
\* a name to up to MaxResolved addresses
MaxResolved == 2
ResolvedPool == {Ipv4(<<8, 8, 0, 1>>), Ipv4(<<10, 0, 0, 1>>), Ipv6(8193, 1, "plain"),
                 Ipv6(65168, 1, "plain")}

RECURSIVE AddressLists(_)
AddressLists(n) ==
  IF n = 0 THEN {<<>>}
  ELSE AddressLists(n - 1)
         \cup {Append(l, a) : l \in {x \in AddressLists(n - 1) : Len(x) = n - 1},
                              a \in ResolvedPool}

LookupResults(h) ==
  IF h.family = "name" THEN AddressLists(MaxResolved) ELSE {<<h>>}

ErrInvalidHostname == "Invalid hostname"
ErrBlockedHostname == "Blocked hostname"
ErrPrivateAddress == "Blocked: private/internal IP address"
ErrUnresolved == "Unable to resolve hostname"
ErrResolvesPrivate == "Blocked: resolves to private/internal IP address"
SsrFBlockedErrors == {ErrBlockedHostname, ErrPrivateAddress, ErrResolvesPrivate}

SsrfCalls ==
  {[fn |-> "assertPublicHostname", hostname |-> h, at |-> "start", results |-> <<>>,
    outcome |-> "pending"] : h \in IpLiterals \cup HostNames}

\* assertPublicHostname up to its await of lookupFn
AssertPublicHostname ==
  /\ call.fn = "assertPublicHostname"
  /\ call.at = "start"
  /\ LET normalized == normalizeHostname(call.hostname.text)
     IN call' =
          IF normalized = <<>>
          THEN [call EXCEPT !.at = "done", !.outcome = ErrInvalidHostname]
          ELSE IF isBlockedHostname(normalized)
          THEN [call EXCEPT !.at = "done", !.outcome = ErrBlockedHostname]
          ELSE IF isPrivateIpAddress(normalized)
          THEN [call EXCEPT !.at = "done", !.outcome = ErrPrivateAddress]
          ELSE [call EXCEPT !.at = "lookup"]
  /\ UNCHANGED <<libUnchanged, disk>>

\* lookupFn returns and assertPublicHostname runs to its end
LookupReturns ==
  /\ call.fn = "assertPublicHostname"
  /\ call.at = "lookup"
  /\ \E results \in LookupResults(call.hostname) :
       call' = [call EXCEPT
                  !.at = "done",
                  !.results = results,
                  !.outcome =
                    IF Len(results) = 0 THEN ErrUnresolved
                    ELSE IF \E i \in 1..Len(results) : isPrivateIpAddress(results[i].text)
                    THEN ErrResolvesPrivate
                    ELSE "resolved"]
  /\ UNCHANGED <<libUnchanged, disk>>

SsrfInit ==
  /\ GateInit
  /\ disk = Missing
  /\ LifeIdle
  /\ HubIdle
  /\ call \in SsrfCalls

SsrfNext ==
  \/ AssertPublicHostname
  \/ LookupReturns

SsrfSpec == SsrfInit /\ [][SsrfNext]_vars

SsrfDone == call.fn = "assertPublicHostname" /\ call.at = "done"

\* C31: a call of assertPublicHostname on an IP literal in 0.0.0.0/8, 10/8, 127/8,
\* 169.254/16, 172.16/12, 192.168/16, 100.64/10, on ::, ::1, on an address in fc00::/7,
\* fe80::/10 or fec0::/10, or on an IPv4-mapped IPv6 address whose IPv4 address is in
\* one of those ranges, ends with an SsrFBlockedError.
C31_PrivateLiteralRejected ==
  SsrfDone /\ call.hostname.family # "name" /\ PrivateAddress(call.hostname)
    => call.outcome \in SsrFBlockedErrors

\* C32: a call of assertPublicHostname on a host that is neither a blocked name nor a
\* private IP literal resolves only if the lookup returned at least one address and none
\* of them is private; it throws the resolution error when the lookup returned nothing.
C32_ResolvedOnlyPublic ==
  SsrfDone /\ call.outcome \notin {ErrInvalidHostname, ErrBlockedHostname, ErrPrivateAddress}
    => /\ call.outcome = "resolved" =>
            /\ Len(call.results) >= 1
            /\ \A i \in 1..Len(call.results) : ~PrivateAddress(call.results[i])
       /\ Len(call.results) = 0 => call.outcome = ErrUnresolved

(***************************************************************************)
(* 4.F  The chat transport of the macOS client: what                       *)
(* MacGatewayChatTransport.mapPushToTransportEvent makes of a push of the  *)
(* gateway connection: the snapshot of a hello, an event frame or a        *)
(* seqGap.                                                                 *)
(***************************************************************************)
SnapshotPush(ok) == [kind |-> "snapshot", hello |-> [snapshot |-> [health |-> [ok |-> ok]]]]
EventPush(event, payload, seq) ==
  [kind |-> "event", frame |-> [event |-> event, payload |-> payload, seq |-> seq]]
SeqGapPush(expected, received) ==
  [kind |-> "seqGap", expected |-> expected, received |-> received]

ChatPayloads ==
  [runId : {"run-1", "run-2"}, sessionKey : SessionKeys,
   state : {"delta", "final", "aborted", "error"}]

Pushes ==
  {SnapshotPush(ok) : ok \in BOOLEAN}
    \cup {EventPush("health", [ok |-> ok], seq) : ok \in BOOLEAN, seq \in 1..MaxSeq}
    \cup {EventPush("tick", Null, seq) : seq \in 1..MaxSeq}
    \cup {EventPush("chat", payload, seq) : payload \in ChatPayloads, seq \in 1..MaxSeq}
    \cup {EventPush(name, payload, seq) :
            name \in {"unknown", "presence", "agent"},
            payload \in {Null, [a |-> 1], [ok |-> TRUE]}, seq \in 1..MaxSeq}
    \cup {SeqGapPush(expected, received) :
            expected \in 1..MaxSeq, received \in 1..(2 * MaxSeq + 1)}

mapPushToTransportEventKeepingUnknown(push) ==
  IF push.kind = "snapshot"
  THEN [type |-> "health", ok |-> push.hello.snapshot.health.ok]
  ELSE IF push.kind = "seqGap"
  THEN [type |-> "seqGap", expected |-> push.expected, received |-> push.received]
  ELSE [type |-> "tick"]

mapPushToTransportEvent(push) ==
  IF push.kind = "snapshot"
  THEN [type |-> "health", ok |-> push.hello.snapshot.health.ok]
  ELSE IF push.kind = "seqGap"
  THEN [type |-> "seqGap", expected |-> push.expected, received |-> push.received]
  ELSE IF push.frame.event = "health"
  THEN [type |-> "health", ok |-> push.frame.payload.ok]
  ELSE IF push.frame.event = "tick"
  THEN [type |-> "tick"]
  ELSE IF push.frame.event = "chat"
  THEN [type |-> "chat", runId |-> push.frame.payload.runId,
        sessionKey |-> push.frame.payload.sessionKey, state |-> push.frame.payload.state]
  ELSE Null

TransportCalls ==
  {[fn |-> "mapPushToTransportEvent", push |-> p, at |-> "start", mapped |-> Null] :
     p \in Pushes}

MapPush ==
  /\ call.fn = "mapPushToTransportEvent"
  /\ call.at = "start"
  /\ call' = [call EXCEPT !.at = "done", !.mapped = mapPushToTransportEvent(call.push)]
  /\ UNCHANGED <<libUnchanged, disk>>

TransportInit ==
  /\ GateInit
  /\ disk = Missing
  /\ LifeIdle
  /\ HubIdle
  /\ call \in TransportCalls

TransportNext == MapPush

TransportSpec == TransportInit /\ [][TransportNext]_vars

Mapped == call.fn = "mapPushToTransportEvent" /\ call.at = "done"

\* C33: mapPushToTransportEvent maps the snapshot of a hello to health with the ok of
\* the snapshot's health, an event "health" to health with the ok of its payload, an
\* event "tick" to tick, an event "chat" to chat with the runId, sessionKey and state of
\* its payload, a seqGap to seqGap with its expected and received, and an event of any
\* other name to null.
C33_PushMapping ==
  Mapped =>
    LET push == call.push
        mapped == call.mapped
    IN /\ push.kind = "snapshot" =>
            mapped = [type |-> "health", ok |-> push.hello.snapshot.health.ok]
       /\ push.kind = "seqGap" =>
            /\ mapped # Null
            /\ mapped.type = "seqGap"
            /\ mapped.expected = push.expected
            /\ mapped.received = push.received
       /\ push.kind = "event" =>
            /\ push.frame.event = "health" =>
                 mapped = [type |-> "health", ok |-> push.frame.payload.ok]
            /\ push.frame.event = "tick" => mapped = [type |-> "tick"]
            /\ push.frame.event = "chat" =>
                 /\ mapped # Null
                 /\ mapped.type = "chat"
                 /\ mapped.runId = push.frame.payload.runId
                 /\ mapped.sessionKey = push.frame.payload.sessionKey
                 /\ mapped.state = push.frame.payload.state
            /\ push.frame.event \notin {"health", "tick", "chat"} => mapped = Null

C33_Witness ==
  /\ Mapped
  /\ call.push.kind = "event"
  /\ call.push.frame.event = "unknown"
  /\ call.push.frame.payload = [a |-> 1]
  /\ call.mapped = Null

(***************************************************************************)
(* The submit handler of the TUI editor, createEditorSubmitHandler of      *)
(* tui/tui.ts, with the mocks of tui-input-history.test.ts: editor.setText,*)
(* editor.addToHistory, handleCommand and sendMessage record the arguments *)
(* of their calls.                                                         *)
(***************************************************************************)
MaxSubmits == 3

TextHi == <<"h","i">>
TextModels == <<"/","m","o","d","e","l","s">>
SubmitTexts ==
  {<<>>, <<" "," "," ">>, <<"\t">>, TextHi, <<" "," "," ">> \o TextHi \o <<" "," "," ">>,
   TextModels, <<" ">> \o TextModels \o <<" ">>, <<"a","/","b">>, <<"/">>}

EditorCalls ==
  {[fn |-> "editorSubmit", submits |-> 0, input |-> <<>>, setText |-> <<>>,
    addToHistory |-> <<>>, handleCommand |-> <<>>, sendMessage |-> <<>>]}

SubmitValueRaw(text) == text

\* the text the handler works with
SubmitValue(text) == trim(text)

\* the handler returned by createEditorSubmitHandler, called with the text
EditorSubmit ==
  /\ call.fn = "editorSubmit"
  /\ call.submits < MaxSubmits
  /\ \E text \in SubmitTexts, clears \in BOOLEAN :
       LET value == SubmitValue(text)
       IN call' =
            IF value = <<>>
            THEN [call EXCEPT !.submits = @ + 1, !.input = text,
                              !.setText = IF clears THEN Append(@, <<>>) ELSE @]
            ELSE IF startsWith(value, <<"/">>)
            THEN [call EXCEPT !.submits = @ + 1, !.input = text,
                              !.setText = Append(@, <<>>),
                              !.addToHistory = Append(@, value),
                              !.handleCommand = Append(@, value)]
            ELSE [call EXCEPT !.submits = @ + 1, !.input = text,
                              !.setText = Append(@, <<>>),
                              !.addToHistory = Append(@, value),
                              !.sendMessage = Append(@, value)]
  /\ UNCHANGED <<libUnchanged, disk>>

EditorInit ==
  /\ GateInit
  /\ disk = Missing
  /\ LifeIdle
  /\ HubIdle
  /\ call \in EditorCalls

EditorNext == EditorSubmit

EditorSpec == EditorInit /\ [][EditorNext]_vars

\* the text without the white space around it, computed from its ends
Trimmed(text) ==
  IF \A i \in 1..Len(text) : IsSpace(text[i]) THEN <<>>
  ELSE SubSeq(text,
              CHOOSE i \in 1..Len(text) :
                ~IsSpace(text[i]) /\ \A j \in 1..(i - 1) : IsSpace(text[j]),
              CHOOSE i \in 1..Len(text) :
                ~IsSpace(text[i]) /\ \A j \in (i + 1)..Len(text) : IsSpace(text[j]))

\* C34: a call of the submit handler with a text that is not empty once trimmed clears
\* the editor, adds the trimmed text to the history and calls exactly one of
\* handleCommand (the trimmed text starts with "/") and sendMessage (otherwise), with the
\* trimmed text; a call with an empty or white-space text leaves the history unchanged.
C34_SubmitHandler ==
  [][call.fn = "editorSubmit" /\ call'.submits = call.submits + 1 =>
       LET value == Trimmed(call'.input)
       IN IF value = <<>>
          THEN /\ call'.addToHistory = call.addToHistory
          ELSE /\ call'.setText = Append(call.setText, <<>>)
               /\ call'.addToHistory = Append(call.addToHistory, value)
               /\ IF value[1] = "/"
                  THEN /\ call'.handleCommand = Append(call.handleCommand, value)
                       /\ call'.sendMessage = call.sendMessage
                  ELSE /\ call'.sendMessage = Append(call.sendMessage, value)
                       /\ call'.handleCommand = call.handleCommand]_vars

C34_Witness ==
  /\ call.fn = "editorSubmit"
  /\ call.submits = 3
  /\ call.addToHistory = <<TextHi, TextModels>>
  /\ call.handleCommand = <<TextModels>>
  /\ call.sendMessage = <<TextHi>>
  /\ call.input = <<" "," "," ">>

\* C35: on host=gateway, a call that had to ask for approval reaches the spawn only if
\* the decision was allow-once or allow-always, or if there was no decision and
\* askFallback permits the command (full, or allowlist with a matching command); after
\* deny or any other decision value it never reaches the spawn, whatever the allowlist
\* match and the effective security are.
C35_SpawnOnlyWhenApproved ==
  (GatewayDone /\ gate.name = "approval" /\ pc = "spawn") =>
     \/ gate.decision \in {"allow-once", "allow-always"}
     \/ /\ gate.decision = None
        /\ askFallback = "full" \/ (askFallback = "allowlist" /\ MatchesAllowlist)

(***************************************************************************)
(* Two exec calls of one agent on host=gateway at the same time            *)
(* (bash-tools.exec.ts 588-671).  Each call holds the approvals file       *)
(* object that resolveExecApprovals loaded for it; the await of            *)
(* exec.approval.request lets the other call run in between.  `call` holds *)
(* both calls, `disk` is the approvals file they share.                    *)
(***************************************************************************)
ExecCallers == {"first", "second"}
PatPrevious == <<"/","b","/","l","s">>
ConcurrentCommands == {CmdRg, CmdUnresolved}
ConcurrentDisks ==
  {Missing,
   OnDisk([EmptyFile EXCEPT !.agents["main"].allowlist = <<Entry(PatPrevious)>>]),
   OnDisk([EmptyFile EXCEPT !.agents["main"].askFallback = "full",
                            !.agents["main"].allowlist = <<Entry(PatPrevious)>>])}

IdleExec(cmd) ==
  [at |-> "idle", command |-> cmd, approvals |-> Null, hostSecurity |-> None,
   hostAsk |-> None, resolution |-> Null, allowlistMatch |-> Null, decision |-> None,
   error |-> None]

ConcurrentCalls ==
  {[fn |-> "concurrentExec", security |-> "allowlist", ask |-> a, overlapped |-> FALSE,
    execs |-> [c \in ExecCallers |-> IdleExec(IF c = "first" THEN c1 ELSE c2)]] :
     a \in {"on-miss", "always"}, c1 \in ConcurrentCommands, c2 \in ConcurrentCommands}

\* lines 588-620 of the call c: up to the approval request, or to the end of the gate
GatewayGateOf(c) ==
  /\ call.fn = "concurrentExec"
  /\ call.execs[c].at = "idle"
  /\ LET cmd == call.execs[c].command
         file == ensureExecApprovals(disk)
         resolved == resolveExecApprovals(file, "main", GatewayOverrides)
         hSecurity == minSecurity(call.security, resolved.agent.security)
         hAsk == maxAsk(call.ask, resolved.agent.ask)
         res == resolveCommandResolution(cmd, Workdir)
         match == IF hSecurity = "allowlist"
                  THEN matchAllowlist(resolved.allowlist, res) ELSE Null
         finish == GatewayFinish(file, 0, hSecurity, match, FALSE, "main", cmd, res)
         gated == [call.execs[c] EXCEPT !.approvals = resolved, !.hostSecurity = hSecurity,
                                        !.hostAsk = hAsk, !.resolution = res]
     IN IF SecurityDenies(hSecurity)
        THEN /\ call' = [call EXCEPT !.execs[c] =
                           [gated EXCEPT !.at = "failed", !.error = ErrGatewayDeny]]
             /\ disk' = OnDisk(file)
        ELSE IF match = Thrown
        THEN /\ call' = [call EXCEPT !.execs[c] =
                           [gated EXCEPT !.at = "failed", !.error = ErrInvalidRegExp]]
             /\ disk' = OnDisk(file)
        ELSE IF RequiresAsk(hAsk, hSecurity, match)
        THEN /\ call' = [call EXCEPT
                           !.execs[c] = [gated EXCEPT !.at = "approval",
                                                      !.allowlistMatch = match],
                           !.overlapped =
                             @ \/ \E o \in ExecCallers \ {c} : call.execs[o].at = "approval"]
             /\ disk' = OnDisk(file)
        ELSE /\ call' = [call EXCEPT !.execs[c] =
                           [gated EXCEPT !.at = finish.pc, !.error = finish.error,
                                         !.allowlistMatch = match,
                                         !.approvals.file = finish.file]]
             /\ disk' = OnDisk(finish.file)
  /\ UNCHANGED libUnchanged

\* lines 621-671 of the call c: it resumes with what exec.approval.request answered
ApprovalDecisionOf(c) ==
  /\ call.fn = "concurrentExec"
  /\ call.execs[c].at = "approval"
  /\ \E decision \in DecisionChoices :
       LET exec == call.execs[c]
           pattern == AllowAlwaysPattern(exec.resolution, exec.command)
           adds == AddsEntry(decision, exec.hostSecurity, pattern)
           saved == IF adds /\ addAllowlistEntrySaves(exec.approvals.file, "main", pattern)
                    THEN 1 ELSE 0
           file == IF adds THEN addAllowlistEntry(exec.approvals.file, "main", pattern)
                   ELSE exec.approvals.file
           approved == ApprovedByAsk(decision, exec.approvals.agent.askFallback,
                                     exec.allowlistMatch)
           finish == GatewayFinish(file, saved, exec.hostSecurity, exec.allowlistMatch,
                                   approved, "main", exec.command, exec.resolution)
       IN IF decision = "deny"
          THEN /\ call' = [call EXCEPT !.execs[c] =
                             [exec EXCEPT !.at = "failed", !.decision = decision,
                                          !.error = ErrUserDenied]]
               /\ disk' = disk
          ELSE IF decision = None
                  /\ ~FallbackApproves(exec.approvals.agent.askFallback, exec.allowlistMatch)
          THEN /\ call' = [call EXCEPT !.execs[c] =
                             [exec EXCEPT !.at = "failed", !.decision = decision,
                                          !.error = ErrApprovalRequired]]
               /\ disk' = disk
          ELSE /\ call' = [call EXCEPT !.execs[c] =
                             [exec EXCEPT !.at = finish.pc, !.decision = decision,
                                          !.error = finish.error,
                                          !.approvals.file = finish.file]]
               /\ disk' = IF finish.saved > 0 THEN OnDisk(finish.file) ELSE disk
  /\ UNCHANGED libUnchanged

ConcurrentInit ==
  /\ GateInit
  /\ disk \in ConcurrentDisks
  /\ LifeIdle
  /\ HubIdle
  /\ call \in ConcurrentCalls

ConcurrentNext ==
  \/ \E c \in ExecCallers : GatewayGateOf(c)
  \/ \E c \in ExecCallers : ApprovalDecisionOf(c)

ConcurrentSpec == ConcurrentInit /\ [][ConcurrentNext]_vars

\* the pattern an allow-always decision of the call c adds
AddedPattern(c) == trim(AllowAlwaysPattern(call.execs[c].resolution, call.execs[c].command))

BothAllowedAlways ==
  /\ call.fn = "concurrentExec"
  /\ call.overlapped
  /\ \A c \in ExecCallers :
       /\ call.execs[c].at = "spawn"
       /\ call.execs[c].decision = "allow-always"
       /\ call.execs[c].hostSecurity = "allowlist"
  /\ AddedPattern("first") # AddedPattern("second")

\* C36: when two gateway exec calls of one agent await approval at the same time and
\* both are answered allow-always for different executables, the approvals file
\* afterwards lists both new patterns and every entry the agent had before.
C36_NoAllowlistEntryLost ==
  BothAllowedAlways =>
    /\ {AddedPattern("first"), AddedPattern("second")} \subseteq Patterns(disk, "main")
    /\ \A c \in ExecCallers :
         \A i \in 1..Len(call.execs[c].approvals.allowlist) :
           call.execs[c].approvals.allowlist[i].pattern \in Patterns(disk, "main")

(***************************************************************************)
(* The settlement and the exit notification of one exec call, under        *)
(* LifeSpec.                                                               *)
(***************************************************************************)
YieldStep == ~yielded /\ yielded'
ExitStep == child # "closed" /\ child' = "closed"
ErrorStep == ~errorEmitted /\ errorEmitted'
FinalizeStep == timeoutFinalizeTimer = "armed" /\ timeoutFinalizeTimer' = "fired"

\* C37: the call settles at most once among the yield, the exit of the process, the
\* error of the spawn and the finalization of the timeout: the first of them settles it
\* (running for the yield, completed or an error for the exit, an error for the two
\* others) and nothing changes its result afterwards.
C37_SettlesOnce ==
  /\ [](settled <=> outcome # "pending")
  /\ [][/\ settled => (settled' /\ outcome' = outcome /\ error' = error /\ pc' = pc)
        /\ (~settled /\ settled') =>
             /\ YieldStep \/ ExitStep \/ ErrorStep \/ FinalizeStep
             /\ YieldStep => outcome' = "running"
             /\ ExitStep => outcome' \in {"completed", "rejected"}
             /\ ErrorStep => outcome' = "rejected" /\ error' = ErrChild
             /\ FinalizeStep => outcome' = "rejected" /\ error' = ErrTimedOut
        /\ (~settled /\ session # Null /\ (YieldStep \/ ExitStep \/ ErrorStep))
             => settled'
        /\ (~settled /\ FinalizeStep /\ ~session.exited) => settled']_vars

\* the spawn failed first, the close of the child came afterwards
C37_Witness ==
  /\ session # Null
  /\ errorEmitted
  /\ child = "closed"
  /\ session.exitCode = "0"
  /\ outcome = "rejected"
  /\ error = ErrChild

\* C38: a session gets at most one exit notification, in whatever order the close of
\* the child, the error of the spawn and the finalization of the timeout come, also when
\* the close comes after the finalization marked the session exited.
C38_OneExitNotification ==
  /\ [](Len(systemEvents) <= 1 /\ heartbeatWakes = Len(systemEvents))
  /\ [](session # Null => (session.exitNotified <=> Len(systemEvents) = 1))
  /\ [][session # Null /\ session.exitNotified => systemEvents' = systemEvents]_vars

\* the finalization notified, the close came afterwards
C38_Witness ==
  /\ session # Null
  /\ timeoutFinalizeTimer = "fired"
  /\ child = "closed"
  /\ session.exitCode = "0"
  /\ Len(systemEvents) = 1
  /\ systemEvents[1].exitLabel = <<"signal", "SIGKILL">>

\* C39: when the process of a backgrounded session exits with code 0, without a signal
\* and without the timeout having fired, the session is marked exited with status
\* completed and, if it is to be notified, the notification says completed; also when
\* the signal of the tool call aborted after the session was backgrounded.
C39_BackgroundedExitCompletes ==
  [][(/\ session # Null
      /\ session.backgrounded
      /\ ExitStep
      /\ session'.exitCode = "0"
      /\ session'.exitSignal = "null"
      /\ ~timedOut) =>
       /\ session'.exited
       /\ session'.status = "completed"
       /\ Notifies(session) =>
            /\ Len(systemEvents') = Len(systemEvents) + 1
            /\ systemEvents'[Len(systemEvents')].status = "completed"]_vars

(***************************************************************************)
(* requestExecApprovalViaSocket (exec-approvals.ts 426-483).  The text the *)
(* approval socket sends is a character sequence that arrives in chunks of *)
(* any size.  A JSON text is written "{", one letter, "}": o, a, d and l   *)
(* are decision messages (allow-once, allow-always, deny and a value that  *)
(* is none of them), e is a decision message with an empty decision, h is  *)
(* a message of another type; "0" is a JSON number; anything else does not *)
(* parse.                                                                  *)
(***************************************************************************)
MaxLines == 2

MessageOf(letter) ==
  CASE letter = "o" -> [ok |-> TRUE, type |-> "decision", decision |-> "allow-once"]
    [] letter = "a" -> [ok |-> TRUE, type |-> "decision", decision |-> "allow-always"]
    [] letter = "d" -> [ok |-> TRUE, type |-> "decision", decision |-> "deny"]
    [] letter = "l" -> [ok |-> TRUE, type |-> "decision", decision |-> "later"]
    [] letter = "e" -> [ok |-> TRUE, type |-> "decision", decision |-> ""]
    [] letter = "h" -> [ok |-> TRUE, type |-> "hello", decision |-> ""]

\* JSON.parse(line); ok is FALSE when it throws
JsonParse(line) ==
  IF Len(line) = 3 /\ line[1] = "{" /\ line[3] = "}"
       /\ line[2] \in {"o", "a", "d", "l", "e", "h"}
  THEN MessageOf(line[2])
  ELSE IF line = <<"0">> THEN [ok |-> TRUE, type |-> "", decision |-> ""]
  ELSE [ok |-> FALSE, type |-> "", decision |-> ""]

\* line 472: msg?.type === "decision" && msg.decision
IsDecision(msg) == msg.ok /\ msg.type = "decision" /\ msg.decision # ""

\* lines 463-479: the loop of the data handler over the complete lines of the buffer;
\* the buffer that is left and the decision it found, None when it found none
RECURSIVE ProcessBuffer(_)
ProcessBuffer(buffer) ==
  LET idx == indexOf(buffer, "\n", 0)
      line == trim(slice(buffer, 0, idx))
      rest == slice(buffer, idx + 1, Len(buffer))
  IN IF idx = -1 THEN [buffer |-> buffer, decision |-> None]
     ELSE IF line = <<>> THEN ProcessBuffer(rest)
     ELSE IF IsDecision(JsonParse(line))
     THEN [buffer |-> rest, decision |-> JsonParse(line).decision]
     ELSE ProcessBuffer(rest)

\* lines 439-448: finish
FinishAgain(c, value) ==
  [c EXCEPT !.settled = TRUE, !.destroyed = TRUE, !.resolves = @ + 1, !.result = value]

Finish(c, value) ==
  IF c.settled THEN c
  ELSE [c EXCEPT !.settled = TRUE, !.destroyed = TRUE, !.resolves = @ + 1,
                 !.result = value]

LineTexts ==
  {<<"{","o","}">>, <<" ","{","a","}"," ">>, <<"{","d","}">>, <<"{","l","}">>,
   <<"{","e","}">>, <<"{","h","}">>, <<"0">>, <<"{">>, <<" ">>, <<>>}

RECURSIVE SocketTexts(_)
SocketTexts(n) ==
  IF n = 0 THEN {<<>>}
  ELSE SocketTexts(n - 1)
         \cup {t \o l \o <<"\n">> : t \in SocketTexts(n - 1), l \in LineTexts}

\* the text of the socket: up to MaxLines lines and the beginning of one more
SocketStreams ==
  {t \o partial : t \in SocketTexts(MaxLines), partial \in {<<>>, <<"{","o","}">>}}

SocketCalls ==
  {[fn |-> "requestExecApprovalViaSocket", socketPath |-> sp, token |-> tk,
    stream |-> st, received |-> <<>>, buffer |-> <<>>, at |-> "start",
    timer |-> "unset", failed |-> FALSE, settled |-> FALSE, destroyed |-> FALSE,
    resolves |-> 0, result |-> "pending"] :
     sp \in {"", DEFAULT_SOCKET}, tk \in {"", GeneratedToken}, st \in SocketStreams}

\* lines 432-461: up to the connect
RequestStarts ==
  /\ call.fn = "requestExecApprovalViaSocket"
  /\ call.at = "start"
  /\ call' = IF call.socketPath = "" \/ call.token = ""
             THEN [call EXCEPT !.at = "returned", !.resolves = 1, !.result = "null"]
             ELSE [call EXCEPT !.at = "connected", !.timer = "armed"]
  /\ UNCHANGED <<libUnchanged, disk>>

\* lines 462-481: the socket emits "data" with the next characters of its text
SocketData ==
  /\ call.fn = "requestExecApprovalViaSocket"
  /\ call.at = "connected"
  /\ ~call.failed
  /\ \E n \in 1..(Len(call.stream) - Len(call.received)) :
       LET chunk == SubSeq(call.stream, Len(call.received) + 1, Len(call.received) + n)
           processed == ProcessBuffer(call.buffer \o chunk)
           read == [call EXCEPT !.received = @ \o chunk, !.buffer = processed.buffer]
       IN call' = IF processed.decision = None THEN read
                  ELSE Finish([read EXCEPT !.timer = Cleared(@)], processed.decision)
  /\ UNCHANGED <<libUnchanged, disk>>

\* line 458: the socket emits "error"
SocketError ==
  /\ call.fn = "requestExecApprovalViaSocket"
  /\ call.at = "connected"
  /\ ~call.failed
  /\ call' = Finish([call EXCEPT !.failed = TRUE], "null")
  /\ UNCHANGED <<libUnchanged, disk>>

\* line 450: the timer fires
TimerFires ==
  /\ call.fn = "requestExecApprovalViaSocket"
  /\ call.timer = "armed"
  /\ call' = Finish([call EXCEPT !.timer = "fired"], "null")
  /\ UNCHANGED <<libUnchanged, disk>>

SocketInit ==
  /\ GateInit
  /\ disk = Missing
  /\ LifeIdle
  /\ HubIdle
  /\ call \in SocketCalls

SocketNext ==
  \/ RequestStarts
  \/ SocketData
  \/ SocketError
  \/ TimerFires

\* a timer that is armed and not cleared fires
SocketSpec == SocketInit /\ [][SocketNext]_vars /\ WF_vars(TimerFires)

\* the decision of the first complete line of the text that is a decision message,
\* None when there is none
FirstDecision(text) ==
  LET parts == split(text, "\n")
      decides(i) == IsDecision(JsonParse(trim(parts[i])))
  IN IF \E i \in 1..(Len(parts) - 1) : decides(i)
     THEN JsonParse(trim(parts[CHOOSE i \in 1..(Len(parts) - 1) :
                                 decides(i) /\ \A j \in 1..(i - 1) : ~decides(j)])).decision
     ELSE None

SocketRequest == call.fn = "requestExecApprovalViaSocket"

\* C40: requestExecApprovalViaSocket, once called, resolves exactly once: with the
\* decision of the first well-formed decision line that arrives before the timeout, and
\* with null otherwise (timeout, socket error, missing socket path or token); lines that
\* are no decision messages are ignored, and nothing that happens after the resolution
\* changes the result.
C40_ResolvesOnce ==
  /\ (SocketRequest /\ call.at # "start") ~> (call.resolves = 1)
  /\ [](SocketRequest =>
          /\ call.resolves <= 1
          /\ call.resolves = 1 <=> call.result # "pending"
          /\ call.result \notin {"pending", "null"} =>
               /\ call.result = FirstDecision(call.received)
               /\ call.timer # "fired")
  /\ [][SocketRequest =>
          /\ call.resolves = 1 => call'.result = call.result
          /\ (call.resolves = 0 /\ call'.resolves = 1) =>
               IF FirstDecision(call'.received) # None
               THEN call'.result = FirstDecision(call'.received)
               ELSE /\ call'.result = "null"
                    /\ \/ call.socketPath = "" \/ call.token = ""
                       \/ call'.failed
                       \/ call'.timer = "fired"
          /\ (call.resolves = 0 /\ FirstDecision(call'.received) # None)
               => call'.resolves = 1]_vars

\* the decision came second, after a message of another type, then the socket failed
C40_Witness ==
  /\ SocketRequest
  /\ call.result = "deny"
  /\ call.received = <<"{","h","}","\n","{","d","}","\n">>
  /\ call.failed
  /\ call.timer = "cleared"
====
